---- MODULE Spec2Model ----
(***************************************************************************)
(* Block-wise learned-round optimisation of brevitas_examples              *)
(* (common/learned_round/learned_round_optimizer.py): the control flow of  *)
(* LearnedRoundOptimizer.apply_learned_round, _populate_cache,             *)
(* _save_inputs_output, DataSaverHook and _optimize_learned_round_block,    *)
(* the block extractor get_blocks of the same file, and the temperature    *)
(* schedule LinearTempDecay of imagenet_classification/ptq/                *)
(* learned_round_utils.py.                                                 *)
(* Tensors are abstracted to small integers; the numeric kernels           *)
(* (model_forward, block_forward, the loss, the optimizer step) are        *)
(* external callables whose results are drawn from bounded sets.           *)
(* Five smaller units are studied on their own, each under its own         *)
(* specification: the benchmark launcher llm/benchmark/llm_benchmark.py,   *)
(* the rank guard llm/llm_quant/distributed_utils.py, the containers of    *)
(* backport/fx/immutable_collections.py, the quantizer insertion of        *)
(* LearnedRound with quant/solver/common.py, and the transposed            *)
(* convolutions of nn/quant_convtranspose.py.                              *)
(***************************************************************************)
EXTENDS Integers, Sequences, FiniteSets, TLC

\* ------------------------------------------------------------------ bounds
NumBlocks == 2          \* blocks returned by get_blocks
NumBatches == 2         \* batches yielded by the calibration data loader
MaxIters == 2           \* largest value of self.iters
MaxLoss == 3            \* losses range over 0..MaxLoss
NumRoundModules == 2    \* learned-round modules inside one block
MaxBatchSize == 3       \* largest value of self.batch_size
MaxNodes == 4           \* modules below the root of a model given to get_blocks
MaxCalls == 2           \* calls of get_blocks on one model
MaxT == 3               \* largest t_max of a LinearTempDecay
DecayDen == 2           \* rel_start_decay ranges over 0, 1/DecayDen, .., 1
MaxB == 2               \* start_b and end_b range over 0..MaxB
MaxWorkers == 2         \* GPUs of a benchmark whose workers run
MaxGpus == 4            \* length of a GPU list and number of GPU identifiers
MaxRetries == 2         \* largest max_num_retries
MaxCombos == 2          \* argument combinations of the benchmark
MaxRanks == 3           \* processes of a distributed run
MaxModels == 2          \* models a wrapped function is called with
MaxItems == 2           \* length of a list, and keys and values of a container
MaxLayers == 2          \* modules of a block given to a learned-round method
MaxValue == 2           \* trained values of a rounding parameter are 1..MaxValue
MaxRuns == 2            \* runs of _insert_learned_round_quantizer on a block
MaxChannels == 2        \* groups and out_channels of a transposed convolution
MaxSize == 3            \* largest output_size passed to forward

\* ------------------------------------------------------- program constants
\* torch.finfo(torch.float).max, the initial best_loss; a loss above it
\* stands for an overflowed (infinite) loss
FloatMax == 2
\* init_loss before the first iteration
InitLossUnset == -1
\* a local variable that has not been assigned yet
Unbound == -2

Blocks == 1..NumBlocks
\* the top-level children of the model, in forward order: the blocks followed
\* by one module that is not selected by block_check_fn
NumModules == NumBlocks + 1
\* named_modules() of a block: 0 is the quantized layer itself, 1.. are its
\* LearnedRoundSte sub-modules
BlockModules == 0..NumRoundModules
Losses == 0..MaxLoss

VARIABLES
    pc,                      \* position in the running method
    caller,                  \* method the run entered through
    iters, use_best_model, batch_size, keep_gpu,   \* configuration
    learned_round_loss_class,                      \* configuration
    round_modules,           \* LearnedRoundSte modules each block holds
    block_is_wbiol,          \* the blocks are QuantWBIOL layers
    model_prepare_fn, model_finish_fn,   \* whether the optional callables are given
    block_idx,               \* 1-based index of the block of the for loop
    capture_quant_input, capture_quant_output,     \* _populate_cache arguments
    pass,                    \* number of the _save_inputs_output call
    store_inputs, store_output, disable_quant,     \* _save_inputs_output arguments
    act_quant, param_quant,  \* quantization enabled in the model
    return_quant_tensor,     \* return_quant_tensor flag of the model's layers
    return_quant_tensor_state, \* state saved by disable_return_quant_tensor
    hooks,                   \* registered forward hooks
    handle,                  \* handle of the hook registered by the pass
    next_handle,             \* hook handles handed out so far
    batch,                   \* 1-based position in the data loader
    fwd_pos,                 \* module model_forward is about to run
    ran,                     \* modules run by the current model_forward call
    log,                     \* calls made so far, in order
    state,                   \* state[b][n]: state_dict of module n of block b
    requires_grad,           \* requires_grad[b][n]
    i,                       \* loop variable of the training loop
    best_loss, init_loss, curr_loss, last_best_iter,
    optimal_rounding_params,
    n_samples, idxs,
    block_loss_iter,         \* iteration counter of the block's loss object
    ret,                     \* value returned by _optimize_learned_round_block
    exc,                     \* exception that ended the run
    lossHist,                \* losses of the iterations of the current block
    paramHist,               \* block state at each loss evaluation
    model,                   \* get_blocks: model[n] is the parent of module n
    block_check_fn,          \* get_blocks: the modules the predicate accepts
    blocks,                  \* get_blocks: the list being built
    todo,                    \* get_blocks: children still to be visited
    got,                     \* get_blocks: the lists returned so far
    t_max, rel_start_decay, start_b, end_b,   \* LinearTempDecay fields
    t,                       \* LinearTempDecay.__call__ argument
    temp,                    \* LinearTempDecay.__call__ result
    warmup, decay_start,     \* AdaRoundLoss.__init__ arguments
    round_loss,              \* AdaRoundLoss.__call__: the regularization term
    model_dict,              \* value returned by model_prepare_fn
    finish_arg,              \* second argument model_finish_fn was called with
    gpus,                    \* llm_benchmark: the parsed --gpus list
    num_gpus_per_process, max_num_retries,   \* llm_benchmark: script arguments
    combinations,            \* llm_benchmark: argument combinations that validate
    args_queue,              \* llm_benchmark: the shared queue, head first
    processes,               \* llm_benchmark: the worker processes started
    joined,                  \* llm_benchmark: processes the main process joined
    job_folders,             \* llm_benchmark: combination -> files of its job
    attempts,                \* llm_benchmark: combination -> attempts, in order
    LOCAL_RANK,              \* distributed_utils: os.environ of each process
    decorator,               \* distributed_utils: on_process or on_main_process
    process_index,           \* distributed_utils: argument of on_process
    model_arg,               \* distributed_utils: model the wrapper is called with
    wrapper_pc,              \* distributed_utils: position of each process
    wrapper_ret,             \* distributed_utils: value each wrapper returned
    func_calls,              \* distributed_utils: calls of func by each process
    container,               \* immutable_collections: the container object
    constructed,             \* immutable_collections: its items at construction
    last_call,               \* immutable_collections: the last method call
    learned_round,           \* learned_round_utils: the LearnedRound subclass
    block,                   \* learned_round_utils: block.modules(), in order
    runs,                    \* learned_round_utils: insertion runs that returned
    conv_class,              \* quant_convtranspose: QuantConvTranspose1d, 2d or 3d
    groups, out_channels, padding_mode, stride,   \* quant_convtranspose
    _output_size,            \* quant_convtranspose: the cached output_size
    conv_ret                 \* quant_convtranspose: outcome of the last call

vars == <<pc, caller, iters, use_best_model, batch_size, keep_gpu, block_idx,
          capture_quant_input, capture_quant_output, pass, store_inputs,
          store_output, disable_quant, act_quant, param_quant,
          return_quant_tensor, return_quant_tensor_state, hooks, handle,
          next_handle, batch, fwd_pos, ran, log, state, requires_grad, i,
          best_loss, init_loss, curr_loss, last_best_iter,
          optimal_rounding_params, n_samples, idxs, block_loss_iter, ret, exc,
          lossHist, paramHist, model, block_check_fn, blocks, todo, got,
          t_max, rel_start_decay, start_b, end_b, t, temp,
          learned_round_loss_class, warmup, decay_start, round_loss,
          model_dict, finish_arg, model_prepare_fn, model_finish_fn,
          round_modules, block_is_wbiol, gpus, num_gpus_per_process,
          max_num_retries, combinations, args_queue, processes, joined,
          LOCAL_RANK, decorator, process_index, model_arg, wrapper_pc,
          wrapper_ret, func_calls, container, constructed, last_call,
          learned_round, block, runs, conv_class, groups, out_channels,
          padding_mode, stride, _output_size, conv_ret,
          job_folders, attempts>>

benchVars == <<gpus, num_gpus_per_process, max_num_retries, combinations,
               args_queue, processes, joined, job_folders, attempts>>
\* the variables of the units that are studied on their own
distVars == <<LOCAL_RANK, decorator, process_index, model_arg, wrapper_pc,
              wrapper_ret, func_calls>>
immVars == <<container, constructed, last_call>>
insertVars == <<learned_round, block, runs>>
convVars == <<conv_class, groups, out_channels, padding_mode, stride,
              _output_size, conv_ret>>
unitVars == <<benchVars, distVars, immVars, insertVars, convVars>>
\* the units beside the benchmark launcher, beside distributed_utils and
\* beside immutable_collections
restOfBench == <<distVars, immVars, insertVars, convVars>>
restOfDist == <<benchVars, immVars, insertVars, convVars>>
restOfImm == <<benchVars, distVars, insertVars, convVars>>
restOfInsert == <<benchVars, distVars, immVars, convVars>>
restOfConv == <<benchVars, distVars, immVars, insertVars>>
adaVars == <<warmup, decay_start, round_loss>>
fnVars == <<model_dict, finish_arg>>
blocksVars == <<model, block_check_fn, blocks, todo, got>>
decayVars == <<t_max, rel_start_decay, start_b, end_b, t, temp>>
configVars == <<iters, use_best_model, batch_size, keep_gpu, caller,
                learned_round_loss_class, model_prepare_fn, model_finish_fn,
                round_modules, block_is_wbiol>>
captureArgs == <<capture_quant_input, capture_quant_output>>
passVars == <<pass, store_inputs, store_output, disable_quant>>
quantVars == <<act_quant, param_quant, return_quant_tensor,
               return_quant_tensor_state>>
hookVars == <<hooks, handle, next_handle>>
fwdVars == <<batch, fwd_pos, ran>>
trainVars == <<i, best_loss, init_loss, curr_loss, last_best_iter,
               optimal_rounding_params, n_samples, idxs, block_loss_iter,
               lossHist, paramHist>>

\* ----------------------------------------------------------------- helpers
\* an entry of the call log: the call, the block it is made for, whether
\* quantization is enabled in the model, whether the stored tensors were
\* moved to the CPU, and the capture pass and batch it belongs to
Ev(op, b, q, c, p, k) ==
    [op |-> op, blk |-> b, quant |-> q, cpu |-> c, pass |-> p, batch |-> k]
Event(op, b) == Ev(op, b, act_quant /\ param_quant, FALSE, 0, 0)

EmptyParams == [n \in {} |-> 0]

IsLearnedRoundSte(n) == n \in 1..round_modules

\* the learned-round modules of a block, as a sequence of module names
RECURSIVE RoundModulesUpTo(_)
RoundModulesUpTo(k) == IF k = 0 THEN <<>> ELSE Append(RoundModulesUpTo(k - 1), k)
return_learned_round_quantizers(b) == RoundModulesUpTo(round_modules)

SeqToSet(s) == {s[k] : k \in 1..Len(s)}

Min(a, b) == IF a < b THEN a ELSE b


\* line 539: the cache call made before a block is captured
StartBlockCacheCalls(b) == <<Ev("clear_cache", b, TRUE, FALSE, 0, 0)>>

\* a finalization that leaves out the reset_cache call of line 600
FinalizeBlockCacheCalls_None(b) == <<>>

\* line 600: the cache call made after a block is trained
FinalizeBlockCacheCalls(b) == <<Ev("reset_cache", b, TRUE, FALSE, 0, 0)>>

\* ------------------------------------------------------------------- Init
\* no get_blocks traversal under way
BlocksIdle ==
    /\ model = <<>>
    /\ block_check_fn = {}
    /\ blocks = <<>>
    /\ todo = <<>>
    /\ got = <<>>

\* no temperature schedule in use
DecayIdle ==
    /\ t_max = 0
    /\ rel_start_decay = 0
    /\ start_b = 0
    /\ end_b = 0
    /\ t = 0
    /\ temp = <<>>

\* no AdaRoundLoss under study
AdaIdle ==
    /\ warmup = 0
    /\ decay_start = 0
    /\ round_loss = 0

\* no benchmark under study
BenchIdle ==
    /\ gpus = <<>>
    /\ num_gpus_per_process = 1
    /\ max_num_retries = 1
    /\ combinations = {}
    /\ args_queue = <<>>
    /\ processes = <<>>
    /\ joined = 0
    /\ job_folders = <<>>
    /\ attempts = <<>>

\* no wrapped function under study
DistIdle ==
    /\ LOCAL_RANK = <<>>
    /\ decorator = "on_process"
    /\ process_index = 0
    /\ model_arg = 0
    /\ wrapper_pc = <<>>
    /\ wrapper_ret = <<>>
    /\ func_calls = <<>>

\* no container under study
ImmIdle ==
    /\ container = [base |-> "list", items |-> <<>>]
    /\ constructed = <<>>
    /\ last_call = [attr |-> "__init__", raised |-> "None"]

\* no learned-round method under study
InsertIdle ==
    /\ learned_round = "AdaRound"
    /\ block = <<>>
    /\ runs = 0

\* no transposed convolution under study
ConvIdle ==
    /\ conv_class = "QuantConvTranspose1d"
    /\ groups = 1
    /\ out_channels = 1
    /\ padding_mode = "zeros"
    /\ stride = 1
    /\ _output_size = Unbound
    /\ conv_ret = [op |-> "__init__", raised |-> "None", value |-> "None"]

UnitsIdle == BenchIdle /\ DistIdle /\ ImmIdle /\ InsertIdle /\ ConvIdle
BesideBenchIdle == DistIdle /\ ImmIdle /\ InsertIdle /\ ConvIdle
BesideDistIdle == BenchIdle /\ ImmIdle /\ InsertIdle /\ ConvIdle
BesideImmIdle == BenchIdle /\ DistIdle /\ InsertIdle /\ ConvIdle
BesideInsertIdle == BenchIdle /\ DistIdle /\ ImmIdle /\ ConvIdle
BesideConvIdle == BenchIdle /\ DistIdle /\ ImmIdle /\ InsertIdle

\* _save_inputs_output has not been called: its arguments are unset
PassArgsUnset ==
    /\ store_inputs = FALSE
    /\ store_output = FALSE
    /\ disable_quant = FALSE

InitCommon ==
    /\ model_dict = "None"
    /\ finish_arg = "not called"
    /\ iters \in 0..MaxIters
    /\ use_best_model \in BOOLEAN
    /\ batch_size \in 1..MaxBatchSize
    /\ pass = 0
    /\ act_quant = TRUE
    /\ param_quant = TRUE
    /\ return_quant_tensor_state = Unbound
    /\ hooks = {}
    /\ handle = 0
    /\ next_handle = 0
    /\ batch = 0
    /\ fwd_pos = 0
    /\ ran = {}
    /\ state = [b \in Blocks |-> [n \in BlockModules |-> 0]]
    /\ requires_grad = [b \in Blocks |-> [n \in BlockModules |-> TRUE]]
    /\ i = 0
    /\ best_loss = Unbound
    /\ init_loss = Unbound
    /\ curr_loss = Unbound
    /\ last_best_iter = Unbound
    /\ optimal_rounding_params = EmptyParams
    /\ n_samples = 0
    /\ idxs = <<>>
    /\ block_loss_iter = 0
    /\ ret = <<>>
    /\ exc = "none"
    /\ lossHist = <<>>
    /\ paramHist = <<>>

\* the state in which apply_learned_round is entered on a freshly quantized
\* model, with the default keep_gpu
InitCall ==
    /\ InitCommon
    /\ UnitsIdle
    /\ BlocksIdle
    /\ DecayIdle
    /\ AdaIdle
    /\ PassArgsUnset
    /\ pc = "apply_learned_round"
    /\ caller = "apply_learned_round"
    /\ keep_gpu = TRUE
    /\ return_quant_tensor = TRUE
    /\ block_idx = 0
    /\ capture_quant_input = TRUE
    /\ capture_quant_output = FALSE
    /\ log = <<>>

\* a call of apply_learned_round with the default loss class and both optional
\* callables given, for every iters, use_best_model and batch_size
Init ==
    /\ InitCall
    /\ learned_round_loss_class = "AutoRoundLoss"
    /\ round_modules = NumRoundModules
    /\ block_is_wbiol = FALSE
    /\ model_prepare_fn = TRUE
    /\ model_finish_fn = TRUE

\* a call of apply_learned_round for either loss class, on blocks that are
\* quantized layers or containers and hold one or more learned-round modules,
\* with or without each of the optional
\* callables, for an optimizer that samples one index per iteration and
\* restores the best parameters
InitOptions ==
    /\ InitCall
    /\ use_best_model = TRUE
    /\ batch_size = 1
    /\ learned_round_loss_class \in {"AdaRoundLoss", "AutoRoundLoss"}
    /\ round_modules \in 1..NumRoundModules
    /\ block_is_wbiol \in BOOLEAN
    /\ model_prepare_fn \in BOOLEAN
    /\ model_finish_fn \in BOOLEAN

\* a direct call of _populate_cache on a cleared cache, for any block and any
\* values of the two capture flags
InitPopulate ==
    /\ InitCommon
    /\ UnitsIdle
    /\ BlocksIdle
    /\ DecayIdle
    /\ AdaIdle
    /\ PassArgsUnset
    /\ learned_round_loss_class = "AutoRoundLoss"
    /\ round_modules = NumRoundModules
    /\ block_is_wbiol = FALSE
    /\ model_prepare_fn = FALSE
    /\ model_finish_fn = FALSE
    /\ pc = "_save_inputs_output"
    /\ caller = "_populate_cache"
    /\ keep_gpu \in BOOLEAN
    /\ return_quant_tensor \in BOOLEAN
    /\ block_idx \in Blocks
    /\ capture_quant_input \in BOOLEAN
    /\ capture_quant_output \in BOOLEAN
    /\ log = StartBlockCacheCalls(block_idx)

\* a direct call of _save_inputs_output with the hook of its first lines not
\* yet registered, for any block and any values of its arguments
InitSave ==
    /\ InitCommon
    /\ UnitsIdle
    /\ BlocksIdle
    /\ DecayIdle
    /\ AdaIdle
    /\ learned_round_loss_class = "AutoRoundLoss"
    /\ round_modules = NumRoundModules
    /\ block_is_wbiol = FALSE
    /\ model_prepare_fn = FALSE
    /\ model_finish_fn = FALSE
    /\ pc = "_save_inputs_output"
    /\ caller = "_save_inputs_output"
    /\ store_inputs \in BOOLEAN
    /\ store_output \in BOOLEAN
    /\ disable_quant \in BOOLEAN
    /\ keep_gpu \in BOOLEAN
    /\ return_quant_tensor \in BOOLEAN
    /\ block_idx \in Blocks
    /\ capture_quant_input = FALSE
    /\ capture_quant_output = FALSE
    /\ log = <<>>

\* --------------------------------------------------- apply_learned_round
\* a run that never calls model_prepare_fn
PrepareCalls_Never(given) == <<>>

\* line 518: model_prepare_fn is called when it is given, and its result is
\* kept in model_dict
PrepareCalls(given) ==
    IF given THEN <<Event("model_prepare_fn", 0)>> ELSE <<>>
PreparedDict(given) == IF given THEN "model_dict" ELSE "None"

\* lines 517-530: model_prepare_fn, quantizer insertion, get_blocks and
\* cache.initialize_cache
Begin ==
    /\ pc = "apply_learned_round"
    /\ log' = log \o PrepareCalls(model_prepare_fn)
                   \o <<Event("insert_learned_round_quantizers", 0),
                        Event("get_blocks", 0),
                        Event("initialize_cache", 0)>>
    /\ model_dict' = PreparedDict(model_prepare_fn)
    /\ block_idx' = 1
    /\ pc' = "for_block"
    /\ UNCHANGED <<blocksVars, decayVars, adaVars, unitVars, finish_arg,
                   configVars, captureArgs, passVars, quantVars, hookVars,
                   fwdVars, state, requires_grad, trainVars, ret, exc>>

\* the block the for loop of apply_learned_round visits after block b
NextBlock(b) == b + 1

\* lines 533-549: next block of the loop: offload_model, cache.clear_cache and
\* the call of _populate_cache with capture_quant_input=True,
\* capture_quant_output=False
StartBlock ==
    /\ pc = "for_block"
    /\ block_idx <= NumBlocks
    /\ log' = log \o StartBlockCacheCalls(block_idx)
    /\ capture_quant_input' = TRUE
    /\ capture_quant_output' = FALSE
    /\ pass' = 0
    /\ pc' = "_save_inputs_output"
    /\ UNCHANGED <<blocksVars, decayVars, adaVars, unitVars, fnVars,
                   configVars, block_idx, store_inputs, store_output,
                   disable_quant, quantVars, hookVars, fwdVars, state,
                   requires_grad, trainVars, ret, exc>>

\* ------------------------------------------------------- _populate_cache
\* a first pass that stores the outputs whatever the flags are
FirstPassStoreOutput_Always(cqi, cqo) == TRUE

\* line 411: the first pass stores the outputs too iff the flags coincide
FirstPassStoreOutput(cqi, cqo) == cqi = cqo

\* a _populate_cache that runs the second pass unconditionally
NeedsSecondPass_Always(cqi, cqo) == TRUE

\* line 415: a second pass is run iff the flags differ
NeedsSecondPass(cqi, cqo) == cqi # cqo

\* the two disable_quant arguments exchanged between the passes
PassDisableQuant_Swapped(p, cqi, cqo) == IF p = 1 THEN ~cqo ELSE ~cqi

\* lines 413 and 425: disable_quant of pass p
PassDisableQuant(p, cqi, cqo) == IF p = 1 THEN ~cqi ELSE ~cqo

\* --------------------------------------------------- _save_inputs_output
\* DataSaverHook.__init__ (lines 274-284) and register_forward_hook
NewHook(id, module, si, so, kg) ==
    [id |-> id, module |-> module, store_inputs |-> si, store_output |-> so,
     keep_gpu |-> kg]

\* lines 371-379: entry of _save_inputs_output, with the arguments of the
\* direct call or those of the next pass of _populate_cache (lines 404-426):
\* optionally disable quantization, then register the data-saver hook on the
\* block
BeginPass ==
    /\ pc = "_save_inputs_output"
    /\ LET p == pass + 1
           direct == caller = "_save_inputs_output"
           si == IF direct THEN store_inputs ELSE (p = 1)
           so == IF direct THEN store_output
                 ELSE IF p = 1
                 THEN FirstPassStoreOutput(capture_quant_input, capture_quant_output)
                 ELSE TRUE
           dq == IF direct THEN disable_quant
                 ELSE PassDisableQuant(p, capture_quant_input, capture_quant_output)
       IN /\ pass' = p
          /\ store_inputs' = si
          /\ store_output' = so
          /\ disable_quant' = dq
          /\ IF dq
             THEN /\ act_quant' = FALSE
                  /\ param_quant' = FALSE
                  /\ return_quant_tensor_state' = return_quant_tensor
                  /\ return_quant_tensor' = FALSE
             ELSE UNCHANGED quantVars
          /\ next_handle' = next_handle + 1
          /\ handle' = next_handle + 1
          /\ hooks' = hooks \cup {NewHook(next_handle + 1, block_idx, si, so, keep_gpu)}
    /\ batch' = 1
    /\ pc' = "for_inps"
    /\ UNCHANGED <<blocksVars, decayVars, adaVars, unitVars, fnVars,
                   configVars, block_idx, captureArgs, fwd_pos, ran, log,
                   state, requires_grad, trainVars, ret, exc>>

\* lines 381-383: the next batch of the data loader is given to model_forward
CallModelForward ==
    /\ pc = "for_inps"
    /\ batch <= NumBatches
    /\ fwd_pos' = 1
    /\ ran' = {}
    /\ log' = Append(log, Ev("model_forward", block_idx, act_quant /\ param_quant,
                             FALSE, pass, batch))
    /\ pc' = "model_forward"
    /\ UNCHANGED <<blocksVars, decayVars, adaVars, unitVars, fnVars,
                   configVars, block_idx, captureArgs, passVars, quantVars,
                   hookVars, batch, state, requires_grad, trainVars, ret,
                   exc>>

\* DataSaverHook.__call__, lines 286-297: the cache calls made by hook h,
\* in order; the hook then raises StopFwdException
DataSaverHookCalls(h, b, q, p, k) ==
    (IF h.store_inputs
     THEN <<Ev("store_inputs", b, q, ~h.keep_gpu, p, k)>>
     ELSE <<>>)
    \o
    (IF h.store_output
     THEN <<Ev("store_output", b, q, ~h.keep_gpu, p, k)>>
     ELSE <<>>)

\* a hook that raises only when it stored something
HookRaises_OnlyIfStored(h) == h.store_inputs \/ h.store_output

\* line 297: the raise is the last statement of __call__, under no condition
HookRaises(h) == TRUE

\* the forward hooks of module m, in registration order
HooksOn(m) == {h \in hooks : h.module = m}
FirstHookOn(m) == CHOOSE h \in HooksOn(m) : \A g \in HooksOn(m) : h.id <= g.id

\* an except clause that swallows every exception
Caught_Everything(e) == TRUE

\* a loop without the try/except of lines 382-385
Caught_Nothing(e) == FALSE

\* lines 382-385: the except clause around model_forward: TRUE for the
\* exceptions it swallows
Caught(e) == e = "StopFwdException"

\* model_forward runs the next module of the model; when the module carries
\* the data-saver hook, the hook stores into the cache and raises
\* StopFwdException; a caught exception ends the batch and the loop goes on
\* with the next one, any other one leaves _save_inputs_output
ForwardModule ==
    /\ pc = "model_forward"
    /\ fwd_pos <= NumModules
    /\ ran' = ran \cup {fwd_pos}
    /\ log' = IF HooksOn(fwd_pos) # {}
              THEN log \o DataSaverHookCalls(FirstHookOn(fwd_pos), block_idx,
                                             act_quant /\ param_quant,
                                             pass, batch)
              ELSE log
    /\ IF HooksOn(fwd_pos) # {} /\ HookRaises(FirstHookOn(fwd_pos))
       THEN /\ IF Caught("StopFwdException")
               THEN /\ batch' = batch + 1
                    /\ pc' = "for_inps"
                    /\ exc' = exc
               ELSE /\ batch' = batch
                    /\ pc' = "aborted"
                    /\ exc' = "StopFwdException"
            /\ fwd_pos' = fwd_pos
       ELSE /\ exc' = exc
            /\ IF fwd_pos = NumModules
               THEN /\ batch' = batch + 1
                    /\ pc' = "for_inps"
                    /\ fwd_pos' = fwd_pos
               ELSE /\ batch' = batch
                    /\ pc' = "model_forward"
                    /\ fwd_pos' = fwd_pos + 1
    /\ UNCHANGED <<blocksVars, decayVars, adaVars, unitVars, fnVars,
                   configVars, block_idx, captureArgs, passVars, quantVars,
                   hookVars, state, requires_grad, trainVars, ret>>

\* a loop wrapped in a try/finally that removes the hook
HooksAfterRaise_Removed(hs, id) == {h \in hs : h.id # id}

\* lines 381-386: an exception that leaves the loop skips handle.remove() and
\* the lines after it: the hooks stay as they are
HooksAfterRaise(hs, id) == hs

\* model_forward raises an exception of its own before reaching the hooked
\* block: the except clause does not match and the exception leaves
\* apply_learned_round with no cleanup; the log records the raise
ForwardRaises ==
    /\ pc = "model_forward"
    /\ IF Caught("Exception")
       THEN /\ batch' = batch + 1
            /\ pc' = "for_inps"
            /\ exc' = exc
            /\ hooks' = hooks
       ELSE /\ batch' = batch
            /\ pc' = "aborted"
            /\ exc' = "Exception"
            /\ hooks' = HooksAfterRaise(hooks, handle)
    /\ log' = Append(log, Event("raise", block_idx))
    /\ UNCHANGED <<blocksVars, decayVars, adaVars, unitVars, fnVars,
                   configVars, block_idx, captureArgs, passVars, quantVars,
                   handle, next_handle, fwd_pos, ran, state, requires_grad,
                   trainVars, ret>>

\* a pass that leaves out handle.remove()
RemoveHook_Keep(hs, id) == hs

\* line 386: handle.remove()
RemoveHook(hs, id) == {h \in hs : h.id # id}

\* a pass that never re-enables quantization
ReenableQuant_Never(dq) == FALSE

\* line 387: quantization is re-enabled iff the pass disabled it
ReenableQuant(dq) == dq

\* lines 386-390: the data loader is exhausted: remove the hook, re-enable
\* quantization if the pass disabled it, and return to _populate_cache, which
\* runs the second pass (line 415) or returns
EndPass ==
    /\ pc = "for_inps"
    /\ batch > NumBatches
    /\ hooks' = RemoveHook(hooks, handle)
    /\ IF ReenableQuant(disable_quant)
       THEN /\ act_quant' = TRUE
            /\ param_quant' = TRUE
            /\ return_quant_tensor' = return_quant_tensor_state
            /\ UNCHANGED return_quant_tensor_state
       ELSE UNCHANGED quantVars
    /\ pc' = IF pass = 1 /\ NeedsSecondPass(capture_quant_input, capture_quant_output)
             THEN "_save_inputs_output"
             ELSE IF caller = "apply_learned_round" THEN "freeze"
             ELSE "returned"
    /\ UNCHANGED <<blocksVars, decayVars, adaVars, unitVars, fnVars,
                   configVars, block_idx, captureArgs, passVars, handle,
                   next_handle, fwdVars, log, state, requires_grad, trainVars,
                   ret, exc>>

\* ------------------------------------------------------------ the cache
\* Cache.__len__: the number of samples stored since the last clear_cache
\* (every calibration batch holds one sample)
RECURSIVE CacheLen(_)
CacheLen(l) ==
    IF l = <<>> THEN 0
    ELSE LET e == l[Len(l)]
         IN IF e.op = "clear_cache" THEN 0
            ELSE CacheLen(SubSeq(l, 1, Len(l) - 1))
                 + (IF e.op = "store_inputs" THEN 1 ELSE 0)

\* ---------------------------------------------- block freezing, 553-573
\* a freeze that leaves out lines 556-557 and only enables the rounding
\* parameters
FrozenForTraining_NoFreeze(rg, rounds) ==
    [n \in DOMAIN rg |-> IF n \in SeqToSet(rounds) THEN TRUE ELSE rg[n]]

\* lines 556-563: requires_grad of the modules of a block while it is trained
FrozenForTraining(rg, rounds) ==
    [n \in DOMAIN rg |-> n \in SeqToSet(rounds)]

\* line 124: isinstance(module, QuantWBIOL) for block b
BlockIsQuantLayer(b) == block_is_wbiol

\* a constructor without the integrity checks of lines 124-125
AdaRoundAccepts_Any(is_wbiol, n_modules) == TRUE

\* AdaRoundLoss.__init__, lines 124-125: the two assertions
AdaRoundAccepts(is_wbiol, n_modules) == is_wbiol /\ n_modules = 1

\* lines 570-573: learned_round_loss_init(block, block_learned_round_modules)
\* returns a loss object unless the constructor of the class raises;
\* AutoRoundLoss has no constructor of its own
LossInitAccepts(class, is_wbiol, n_modules) ==
    class = "AdaRoundLoss" => AdaRoundAccepts(is_wbiol, n_modules)

\* a loss object that is shared between the blocks
NewLossIter_Shared(old) == old

\* lines 570 and 135: the loss object of a block is new, its counter is 0
NewLossIter(old) == 0

\* lines 551-573 and 436-458: freeze the block except for its learned-round
\* modules, create the block's loss object, then enter
\* _optimize_learned_round_block and initialise its locals
FreezeBlock ==
    /\ pc = "freeze"
    /\ requires_grad' = [requires_grad EXCEPT ![block_idx] =
           FrozenForTraining(@, return_learned_round_quantizers(block_idx))]
    /\ IF LossInitAccepts(learned_round_loss_class, BlockIsQuantLayer(block_idx),
                          Len(return_learned_round_quantizers(block_idx)))
       THEN /\ block_loss_iter' = NewLossIter(block_loss_iter)
            /\ best_loss' = FloatMax
            /\ init_loss' = InitLossUnset
            /\ last_best_iter' = iters
            /\ n_samples' = CacheLen(log)
            /\ pc' = "for_i"
            /\ exc' = exc
       ELSE /\ UNCHANGED <<block_loss_iter, best_loss, init_loss,
                           last_best_iter, n_samples>>
            /\ pc' = "aborted"
            /\ exc' = "AssertionError"
    /\ optimal_rounding_params' = EmptyParams
    /\ i' = 0
    /\ curr_loss' = Unbound
    /\ idxs' = <<>>
    /\ lossHist' = <<>>
    /\ paramHist' = <<>>
    /\ UNCHANGED <<blocksVars, decayVars, adaVars, unitVars, fnVars,
                   configVars, block_idx, captureArgs, passVars, quantVars,
                   hookVars, fwdVars, log, state, ret>>

\* ------------------------------------------ _optimize_learned_round_block
\* indices drawn independently of one another (torch.randint)
Arrangements_Repeating(S, k) == [1..k -> S]

\* torch.randperm draws without repetition: the sequences of length k over S
\* with pairwise distinct entries
Arrangements(S, k) ==
    {s \in [1..k -> S] : \A a, b \in 1..k : a # b => s[a] # s[b]}

\* a permutation that is not sliced to the batch size
RandpermPrefixes_Unsliced(n, bs) == Arrangements(0..(n - 1), n)

\* line 462: torch.randperm(n)[:bs]: the first bs entries of a permutation
\* of 0..n-1, all of them when bs exceeds n
RandpermPrefixes(n, bs) == Arrangements(0..(n - 1), Min(bs, n))

\* a loop that runs once more than range(self.iters)
LoopContinues_Inclusive(k, n) == k <= n

\* line 460: for i in range(self.iters)
LoopContinues(k, n) == k < n

\* lines 460-463: draw a mini-batch and fetch it from the cache
SampleBatch ==
    /\ pc = "for_i"
    /\ LoopContinues(i, iters)
    /\ idxs' \in RandpermPrefixes(n_samples, batch_size)
    /\ log' = Append(log, Event("sample_batch", block_idx))
    /\ pc' = "block_forward"
    /\ UNCHANGED <<blocksVars, decayVars, adaVars, unitVars, fnVars,
                   configVars, block_idx, captureArgs, passVars, quantVars,
                   hookVars, fwdVars, state, requires_grad, i, best_loss,
                   init_loss, curr_loss, last_best_iter,
                   optimal_rounding_params, n_samples, block_loss_iter,
                   lossHist, paramHist, ret, exc>>

\* line 466: block_forward runs the block; a forward hook still registered on
\* the block would store into the cache and raise StopFwdException, which
\* nothing catches here; the indices of line 462 are not read again
BlockForward ==
    /\ pc = "block_forward"
    /\ log' = IF HooksOn(block_idx) # {}
              THEN log \o DataSaverHookCalls(FirstHookOn(block_idx), block_idx,
                                             act_quant /\ param_quant, 0, 0)
              ELSE log
    /\ IF HooksOn(block_idx) # {} /\ HookRaises(FirstHookOn(block_idx))
       THEN /\ pc' = "aborted"
            /\ exc' = "StopFwdException"
       ELSE /\ pc' = "block_loss"
            /\ exc' = exc
    /\ idxs' = <<>>
    /\ UNCHANGED <<blocksVars, decayVars, adaVars, unitVars, fnVars,
                   configVars, block_idx, captureArgs, passVars, quantVars,
                   hookVars, fwdVars, state, requires_grad, i, best_loss,
                   init_loss, curr_loss, last_best_iter,
                   optimal_rounding_params, n_samples, block_loss_iter,
                   lossHist, paramHist, ret>>

\* lines 467-477: the loss object is called (its counter advances), the loss
\* is read into curr_loss, and the first iteration's loss becomes init_loss;
\* the value of the loss is left open here for both loss classes, and a call
\* that raises is the step TrainRaises
ComputeLoss ==
    /\ pc = "block_loss"
    /\ \E loss \in Losses :
          /\ curr_loss' = loss
          /\ init_loss' = IF i = 0 THEN loss ELSE init_loss
          /\ lossHist' = Append(lossHist, loss)
    /\ paramHist' = Append(paramHist, state[block_idx])
    /\ block_loss_iter' = block_loss_iter + 1
    /\ pc' = "save_best"
    /\ UNCHANGED <<blocksVars, decayVars, adaVars, unitVars, fnVars,
                   configVars, block_idx, captureArgs, passVars, quantVars,
                   hookVars, fwdVars, log, state, requires_grad, i, best_loss,
                   last_best_iter, optimal_rounding_params, n_samples, idxs,
                   ret, exc>>

\* block_forward or the loss raises: nothing in the training loop catches
TrainRaises ==
    /\ pc \in {"block_forward", "block_loss"}
    /\ pc' = "aborted"
    /\ exc' = "Exception"
    /\ log' = Append(log, Event("raise", block_idx))
    /\ idxs' = <<>>
    /\ UNCHANGED <<blocksVars, decayVars, adaVars, unitVars, fnVars,
                   configVars, block_idx, captureArgs, passVars, quantVars,
                   hookVars, fwdVars, state, requires_grad, i, best_loss,
                   init_loss, curr_loss, last_best_iter,
                   optimal_rounding_params, n_samples, block_loss_iter,
                   lossHist, paramHist, ret>>

\* the comparison of line 478 with its operands exchanged
IsBetter_Flipped(loss, best) == best < loss

\* a comparison that also replaces the best loss on a tie
IsBetter_OrEqual(loss, best) == loss <= best

\* line 478: loss < best_loss
IsBetter(loss, best) == loss < best

\* _collect_round_params, lines 347-352: a deep copy of the state_dict of
\* every LearnedRoundSte among the named modules of the block
CollectRoundParams(blockState) ==
    [n \in {m \in DOMAIN blockState : IsLearnedRoundSte(m)} |-> blockState[n]]

\* a _load_round_params whose name test never matches
LoadRoundParams_Skip(blockState, round_params) == blockState

\* _load_round_params, lines 340-343
LoadRoundParams(blockState, round_params) ==
    [n \in DOMAIN blockState |->
        IF n \in DOMAIN round_params THEN round_params[n] ELSE blockState[n]]

\* lines 485-487: the block state after the optimizer step of iteration k:
\* the parameters handed to the optimizer (lines 437-441) that track
\* gradients get a new value, written k (the rounding values are identified
\* by the step that produced them, 0 being the value at insertion); all
\* other parameters are left alone
OptimizerStep(blockState, rg, rounds, k) ==
    [n \in DOMAIN blockState |->
        IF n \in SeqToSet(rounds) /\ rg[n] THEN k ELSE blockState[n]]

\* an optimizer built over the rounding parameters of every block, stepping
\* them whether or not they track gradients
StateAfterStep_AllBlocks(st, rg, b, k) ==
    [c \in DOMAIN st |->
        [n \in DOMAIN st[c] |-> IF IsLearnedRoundSte(n) THEN k ELSE st[c][n]]]

\* lines 437-441 and 487: the optimizer holds the parameters of the
\* learned-round modules of block b only, so its step touches no other block
StateAfterStep(st, rg, b, k) ==
    [st EXCEPT ![b] = OptimizerStep(@, rg[b],
                                    return_learned_round_quantizers(b), k)]

\* a snapshot taken from the parameters the optimizer step of the iteration
\* leaves
SnapshotSource_AfterStep(st, rg, b, k) == StateAfterStep(st, rg, b, k)[b]

\* lines 478-482 come before lines 485-487: the snapshot of iteration k is
\* taken from the block as the forward pass of the iteration saw it
SnapshotSource(st, rg, b, k) == st[b]

\* lines 478-482: remember the best loss, its iteration and, when
\* use_best_model is set, the rounding parameters that produced it
SaveBest ==
    /\ pc = "save_best"
    /\ IF IsBetter(curr_loss, best_loss)
       THEN /\ best_loss' = curr_loss
            /\ last_best_iter' = i + 1
            /\ optimal_rounding_params' =
                   IF use_best_model
                   THEN CollectRoundParams(SnapshotSource(state, requires_grad,
                                                          block_idx, i + 1))
                   ELSE optimal_rounding_params
       ELSE UNCHANGED <<best_loss, last_best_iter, optimal_rounding_params>>
    /\ pc' = "step"
    /\ UNCHANGED <<blocksVars, decayVars, adaVars, unitVars, fnVars,
                   configVars, block_idx, captureArgs, passVars, quantVars,
                   hookVars, fwdVars, log, state, requires_grad, i, init_loss,
                   curr_loss, n_samples, idxs, block_loss_iter, lossHist,
                   paramHist, ret, exc>>

\* lines 485-490: backward pass and optimizer step, end of the iteration
GradStep ==
    /\ pc = "step"
    /\ state' = StateAfterStep(state, requires_grad, block_idx, i + 1)
    /\ i' = i + 1
    /\ pc' = "for_i"
    /\ UNCHANGED <<blocksVars, decayVars, adaVars, unitVars, fnVars,
                   configVars, block_idx, captureArgs, passVars, quantVars,
                   hookVars, fwdVars, log, requires_grad, best_loss, init_loss,
                   curr_loss, last_best_iter, optimal_rounding_params,
                   n_samples, idxs, block_loss_iter, lossHist, paramHist, ret,
                   exc>>

\* the return value without the override of lines 498-501
Reported_AlwaysBest(ub, best, best_iter, curr, n) == <<best, best_iter>>

\* lines 495-503: the (best_loss, last_best_iter) pair that is returned
Reported(ub, best, best_iter, curr, n) ==
    IF ub THEN <<best, best_iter>> ELSE <<curr, n>>

\* lines 493-503: after the last iteration either reload the best snapshot
\* or report the final iteration as the best one; reading curr_loss before
\* any iteration assigned it raises UnboundLocalError
ReturnOptimize ==
    /\ pc = "for_i"
    /\ ~LoopContinues(i, iters)
    /\ IF ~use_best_model /\ curr_loss = Unbound
       THEN /\ pc' = "aborted"
            /\ exc' = "UnboundLocalError"
            /\ UNCHANGED <<state, ret, best_loss, last_best_iter>>
       ELSE LET rep == Reported(use_best_model, best_loss, last_best_iter,
                                curr_loss, iters)
            IN /\ state' = IF use_best_model
                           THEN [state EXCEPT ![block_idx] =
                                    LoadRoundParams(@, optimal_rounding_params)]
                           ELSE state
               /\ best_loss' = rep[1]
               /\ last_best_iter' = rep[2]
               /\ ret' = <<init_loss, rep[1], rep[2]>>
               /\ pc' = "finalize"
               /\ exc' = exc
    /\ UNCHANGED <<blocksVars, decayVars, adaVars, unitVars, fnVars,
                   configVars, block_idx, captureArgs, passVars, quantVars,
                   hookVars, fwdVars, log, requires_grad, i, init_loss,
                   curr_loss, optimal_rounding_params, n_samples, idxs,
                   block_loss_iter, lossHist, paramHist>>

\* a finalization that leaves out the freezing of lines 590-593
FrozenAfterTraining_Keep(rg, rounds) == rg

\* a finalization that freezes the first learned-round module only
FrozenAfterTraining_FirstOnly(rg, rounds) ==
    [n \in DOMAIN rg |-> IF rounds # <<>> /\ n = Head(rounds) THEN FALSE ELSE rg[n]]

\* lines 590-593: requires_grad of the modules of a block after its training
FrozenAfterTraining(rg, rounds) ==
    [n \in DOMAIN rg |-> IF n \in SeqToSet(rounds) THEN FALSE ELSE rg[n]]

\* lines 584-600: print the result, freeze the rounding parameters, move the
\* block to the CPU, cache.reset_cache, and go on with the next block; the
\* result triple and the locals of the call that returned are dead from here
\* on
FinalizeBlock ==
    /\ pc = "finalize"
    /\ requires_grad' = [requires_grad EXCEPT ![block_idx] =
           FrozenAfterTraining(@, return_learned_round_quantizers(block_idx))]
    /\ log' = log \o FinalizeBlockCacheCalls(block_idx)
    /\ block_idx' = NextBlock(block_idx)
    /\ ret' = <<>>
    /\ i' = 0
    /\ best_loss' = Unbound
    /\ init_loss' = Unbound
    /\ curr_loss' = Unbound
    /\ last_best_iter' = Unbound
    /\ optimal_rounding_params' = EmptyParams
    /\ n_samples' = 0
    /\ idxs' = <<>>
    /\ lossHist' = <<>>
    /\ paramHist' = <<>>
    /\ pc' = "for_block"
    /\ UNCHANGED <<blocksVars, decayVars, adaVars, unitVars, fnVars,
                   configVars, captureArgs, passVars, quantVars, hookVars,
                   fwdVars, state, block_loss_iter, exc>>

\* a model_finish_fn that is not handed the result of model_prepare_fn
FinishArgument_None(md) == "None"

\* line 604: model_finish_fn(model, model_dict)
FinishArgument(md) == md

\* lines 603-604: all blocks are done: model_finish_fn is called when it is
\* given
Finish ==
    /\ pc = "for_block"
    /\ block_idx > NumBlocks
    /\ IF model_finish_fn
       THEN /\ log' = Append(log, Event("model_finish_fn", 0))
            /\ finish_arg' = FinishArgument(model_dict)
       ELSE /\ log' = log
            /\ finish_arg' = finish_arg
    /\ pc' = "done"
    /\ UNCHANGED <<blocksVars, decayVars, adaVars, unitVars, model_dict,
                   configVars, block_idx, captureArgs, passVars, quantVars,
                   hookVars, fwdVars, state, requires_grad, trainVars, ret,
                   exc>>

\* ---------------------------------------------------------- specifications
Next ==
    \/ Begin
    \/ StartBlock
    \/ BeginPass
    \/ CallModelForward
    \/ ForwardModule
    \/ ForwardRaises
    \/ EndPass
    \/ FreezeBlock
    \/ SampleBatch
    \/ BlockForward
    \/ ComputeLoss
    \/ TrainRaises
    \/ SaveBest
    \/ GradStep
    \/ ReturnOptimize
    \/ FinalizeBlock
    \/ Finish

Spec == Init /\ [][Next]_vars

SpecOptions == InitOptions /\ [][Next]_vars

\* the runs of apply_learned_round together with the direct calls of
\* _populate_cache
InitEntryPoints == InitOptions \/ InitPopulate

SpecEntryPoints == InitEntryPoints /\ [][Next]_vars

NextPopulate ==
    \/ BeginPass
    \/ CallModelForward
    \/ ForwardModule
    \/ ForwardRaises
    \/ EndPass

SpecPopulate == InitPopulate /\ [][NextPopulate]_vars

NextSave ==
    \/ BeginPass
    \/ CallModelForward
    \/ ForwardModule
    \/ ForwardRaises
    \/ EndPass

SpecSave == InitSave /\ [][NextSave]_vars

\* ==================================================================== claims
MinOf(S) == CHOOSE x \in S : \A y \in S : x <= y
LossesSeen == SeqToSet(lossHist)
RoundModules == {n \in BlockModules : IsLearnedRoundSte(n)}
\* _optimize_learned_round_block has just returned
Returned == pc = "finalize"

\* C1 as stated: for every loss sequence of a call with iters >= 1, the
\* returned best_loss is the minimum of the losses of iterations 1..iters.
C1_Original ==
    (Returned /\ iters >= 1) => ret[2] = MinOf(LossesSeen)

\* C1, amended: with use_best_model enabled and iters >= 1, the returned
\* best_loss is the smaller of torch.finfo(torch.float).max (its initial
\* value) and the minimum of the losses of iterations 1..iters; with
\* use_best_model disabled it is the loss of the last iteration.
C1_BestLossIsMin ==
    (Returned /\ iters >= 1) =>
        ret[2] = IF use_best_model
                 THEN Min(FloatMax, MinOf(LossesSeen))
                 ELSE lossHist[Len(lossHist)]

\* an enabled use_best_model run whose minimum loss is not the last one
C1_Witness ==
    /\ Returned
    /\ use_best_model
    /\ Len(lossHist) = 2
    /\ lossHist[1] < lossHist[2]
    /\ ret[2] = lossHist[1]

\* C2 as stated: with use_best_model enabled, after the return every
\* learned-round module of the block has the state it had at the iteration
\* whose loss is the reported best_loss.
C2_Original ==
    (Returned /\ use_best_model /\ iters >= 1) =>
        \E k \in 1..iters :
            /\ lossHist[k] = ret[2]
            /\ \A n \in RoundModules : state[block_idx][n] = paramHist[k][n]

\* C2, amended: with use_best_model enabled, if some iteration's loss was
\* below torch.finfo(torch.float).max, every learned-round module of the
\* block ends in the state it had at the reported best iteration, whose loss
\* is the reported best_loss; if no loss was below it, no snapshot exists and
\* the modules keep the state produced by the last gradient step.
C2_BestSnapshotRestored ==
    (Returned /\ use_best_model /\ iters >= 1) =>
        IF \E l \in LossesSeen : l < FloatMax
        THEN /\ ret[3] \in 1..iters
             /\ lossHist[ret[3]] = ret[2]
             /\ \A n \in RoundModules :
                    state[block_idx][n] = paramHist[ret[3]][n]
        ELSE /\ optimal_rounding_params = EmptyParams
             /\ ret[2] = FloatMax
             /\ ret[3] = iters

\* the best loss came at the first of two iterations and the parameters were
\* changed by the gradient step that followed it
C2_Witness ==
    /\ Returned
    /\ use_best_model
    /\ Len(lossHist) = 2
    /\ lossHist[1] < lossHist[2]
    /\ ret[3] = 1
    /\ paramHist[2] # paramHist[1]
    /\ state[block_idx] = paramHist[1]

\* C3: with use_best_model disabled nothing is loaded back when the
\* optimization returns: the block keeps the parameters of the last gradient
\* step and (best_loss, best_iteration) is (loss of the final iteration,
\* iters).
C3_FinalIterationReported ==
    [][(pc = "for_i" /\ pc' = "finalize" /\ ~use_best_model) =>
          /\ state' = state
          /\ ret'[2] = lossHist[Len(lossHist)]
          /\ ret'[3] = iters
          /\ Len(lossHist) = iters]_vars

\* a disabled use_best_model run whose last loss is not the minimum and whose
\* parameters moved away from their initial values
C3_Witness ==
    /\ Returned
    /\ ~use_best_model
    /\ Len(lossHist) = 2
    /\ lossHist[1] < lossHist[2]
    /\ ret[2] = lossHist[2]
    /\ ret[3] = 2
    /\ state[block_idx] # paramHist[1]

\* ------------------------------------------------------------- C4 and C5
IsBlockEvent(e) == e.blk # 0
BlockEvents == SelectSeq(log, IsBlockEvent)
CountOp(op, b) == Cardinality({k \in 1..Len(log) : log[k].op = op /\ log[k].blk = b})
\* a block later than b has been entered
LaterBlockEntered(b) == \E k \in 1..Len(log) : log[k].blk > b

\* C4: the blocks are processed one at a time in the order of get_blocks: the
\* capture of block b+1 starts (clear_cache) only directly after block b was
\* trained for iters iterations, had its rounding parameters frozen and had
\* reset_cache called; no call made for a block falls into the window of
\* another block.
C4_BlocksOneAtATime ==
    /\ BlockEvents # <<>> =>
          BlockEvents[1].op = "clear_cache" /\ BlockEvents[1].blk = 1
    /\ \A k \in 1..(Len(BlockEvents) - 1) :
          /\ (BlockEvents[k + 1].op = "clear_cache") = (BlockEvents[k].op = "reset_cache")
          /\ BlockEvents[k + 1].blk = IF BlockEvents[k].op = "reset_cache"
                                      THEN BlockEvents[k].blk + 1
                                      ELSE BlockEvents[k].blk
    /\ \A b \in Blocks :
          LaterBlockEntered(b) =>
              /\ CountOp("sample_batch", b) = iters
              /\ CountOp("reset_cache", b) = 1
              /\ \A n \in BlockModules : ~requires_grad[b][n]
    /\ \A b \in Blocks : b < block_idx => CountOp("reset_cache", b) = 1
    /\ \A b \in Blocks : b > block_idx /\ block_idx > 0 => CountOp("clear_cache", b) = 0

\* the second block is being captured after the first one was trained and
\* its rounding parameters were changed
C4_Witness ==
    /\ pc = "model_forward"
    /\ block_idx = 2
    /\ pass = 2
    /\ iters = 2
    /\ state[1][1] # 0
    /\ CountOp("sample_batch", 1) = 2

\* the cache protocol as an automaton over the call log: st is "new" before
\* initialize_cache, "idle" between blocks, "capture" after clear_cache and
\* "train" after the first sample_batch; last is the last block cleared
CacheStep(c, e) ==
    IF c.st = "bad" THEN c
    ELSE IF e.op \in {"model_prepare_fn", "insert_learned_round_quantizers",
                      "get_blocks", "model_finish_fn"}
    THEN (IF c.st \in {"new", "idle"} THEN c ELSE [c EXCEPT !.st = "bad"])
    ELSE IF e.op = "initialize_cache"
    THEN [c EXCEPT !.st = IF c.st = "new" THEN "idle" ELSE "bad"]
    ELSE IF e.op = "clear_cache"
    THEN (IF c.st = "idle" /\ e.blk = c.last + 1
          THEN [st |-> "capture", last |-> e.blk]
          ELSE [c EXCEPT !.st = "bad"])
    ELSE IF e.op \in {"store_inputs", "store_output", "model_forward"}
    THEN (IF c.st = "capture" /\ e.blk = c.last THEN c ELSE [c EXCEPT !.st = "bad"])
    ELSE IF e.op = "sample_batch"
    THEN (IF c.st \in {"capture", "train"} /\ e.blk = c.last
          THEN [c EXCEPT !.st = "train"]
          ELSE [c EXCEPT !.st = "bad"])
    ELSE IF e.op = "reset_cache"
    THEN (IF c.st \in {"capture", "train"} /\ e.blk = c.last
          THEN [c EXCEPT !.st = "idle"]
          ELSE [c EXCEPT !.st = "bad"])
    ELSE IF e.op = "raise"
    THEN c
    ELSE [c EXCEPT !.st = "bad"]

RECURSIVE CacheRun(_)
CacheRun(l) ==
    IF l = <<>> THEN [st |-> "new", last |-> 0]
    ELSE CacheStep(CacheRun(SubSeq(l, 1, Len(l) - 1)), l[Len(l)])

\* C5: the cache sees initialize_cache once, before any block is processed,
\* then for each block in order clear_cache, the stores of its capture, the
\* sample_batch calls of its training, and reset_cache; no store or sample
\* falls outside a clear_cache..reset_cache window, and a run that completes
\* has gone through the whole sequence for every block.
C5_CacheCallSequence ==
    /\ CacheRun(log).st # "bad"
    /\ pc = "done" =>
          /\ CacheRun(log) = [st |-> "idle", last |-> NumBlocks]
          /\ CountOp("initialize_cache", 0) = 1
          /\ \A b \in Blocks :
                /\ CountOp("clear_cache", b) = 1
                /\ CountOp("reset_cache", b) = 1
                /\ CountOp("store_inputs", b) = NumBatches
                /\ CountOp("store_output", b) = NumBatches
                /\ CountOp("sample_batch", b) = iters

\* a completed run that trained every block
C5_Witness ==
    /\ pc = "done"
    /\ iters = 2
    /\ \A b \in Blocks : CountOp("sample_batch", b) = 2 /\ CountOp("store_output", b) = NumBatches

\* ------------------------------------------------------------ C6 .. C10
\* calls op logged by capture pass p
CountInPass(op, p) ==
    Cardinality({k \in 1..Len(log) : log[k].op = op /\ log[k].pass = p})
\* position of the last clear_cache of the log (0 if there is none)
LastClear ==
    LET ks == {k \in 1..Len(log) : log[k].op = "clear_cache"}
    IN IF ks = {} THEN 0 ELSE CHOOSE k \in ks : \A j \in ks : j <= k
\* calls op made since the last clear_cache
CountSinceClear(op) ==
    Cardinality({k \in (LastClear + 1)..Len(log) : log[k].op = op})
PopulateReturned == pc = "returned"

\* C6: _populate_cache makes exactly one pass over the data loader, storing
\* inputs and outputs, when the two capture flags are equal, and exactly two
\* passes, the first storing inputs only and the second outputs only, when
\* they differ; for all four combinations of the flags.
C6_OneOrTwoPasses ==
    PopulateReturned =>
        /\ CountInPass("model_forward", 1) = NumBatches
        /\ CountInPass("store_inputs", 1) = NumBatches
        /\ CountInPass("store_inputs", 2) = 0
        /\ IF capture_quant_input = capture_quant_output
           THEN /\ pass = 1
                /\ next_handle = 1
                /\ CountInPass("store_output", 1) = NumBatches
                /\ CountInPass("model_forward", 2) = 0
                /\ CountInPass("store_output", 2) = 0
           ELSE /\ pass = 2
                /\ next_handle = 2
                /\ CountInPass("store_output", 1) = 0
                /\ CountInPass("model_forward", 2) = NumBatches
                /\ CountInPass("store_output", 2) = NumBatches

\* a two-pass capture has returned
C6_Witness ==
    /\ PopulateReturned
    /\ ~capture_quant_input
    /\ capture_quant_output
    /\ pass = 2
    /\ CountInPass("store_output", 2) = NumBatches

\* C7 as stated: when the capture flags differ, the inputs are stored by a
\* first pass that runs with quantization disabled and the outputs by a
\* second pass that runs with quantization enabled.
C7_Original ==
    capture_quant_input # capture_quant_output =>
        \A k \in 1..Len(log) :
            /\ log[k].op = "store_inputs" => (log[k].pass = 1 /\ ~log[k].quant)
            /\ log[k].op = "store_output" => (log[k].pass = 2 /\ log[k].quant)

\* C7, amended: the pass that stores the inputs runs with quantization
\* enabled iff capture_quant_input, the pass that stores the outputs with
\* quantization enabled iff capture_quant_output; when the flags differ the
\* inputs come from the first pass and the outputs from the second. With the
\* flags of apply_learned_round (True, False) the inputs are thus captured
\* with quantization enabled and the outputs with quantization disabled.
C7_QuantFollowsFlags ==
    \A k \in 1..Len(log) :
        /\ log[k].op = "store_inputs" =>
              /\ log[k].pass = 1
              /\ log[k].quant = capture_quant_input
        /\ log[k].op = "store_output" =>
              /\ log[k].pass = (IF capture_quant_input # capture_quant_output
                                THEN 2 ELSE 1)
              /\ log[k].quant = capture_quant_output
        /\ log[k].op = "model_forward" =>
              log[k].quant = (IF log[k].pass = 1 THEN capture_quant_input
                              ELSE capture_quant_output)

\* the capture of apply_learned_round: quantized inputs, unquantized outputs
C7_Witness ==
    /\ PopulateReturned
    /\ capture_quant_input
    /\ ~capture_quant_output
    /\ \E k \in 1..Len(log) : log[k].op = "store_inputs" /\ log[k].quant
    /\ \E k \in 1..Len(log) : log[k].op = "store_output" /\ ~log[k].quant

\* C8: once _populate_cache has completed, whatever the two capture flags
\* are, as many outputs as inputs have been stored since the last
\* clear_cache.
C8_OutputsMatchInputs ==
    PopulateReturned =>
        CountSinceClear("store_output") = CountSinceClear("store_inputs")

\* a completed two-pass capture that stored something
C8_Witness ==
    /\ PopulateReturned
    /\ capture_quant_input
    /\ ~capture_quant_output
    /\ CountSinceClear("store_inputs") = NumBatches
    /\ CountSinceClear("store_output") = NumBatches

\* the capture pass p has gone through its whole data loader
PassEnded(p) ==
    \/ p < pass
    \/ p = pass /\ pc = "returned"
    \/ p = pass /\ pc = "for_inps" /\ batch > NumBatches

\* C9: the StopFwdException of the data-saver hook is caught batch by batch:
\* it never leaves _save_inputs_output, a pass that ends has run model_forward
\* on every batch of the data loader and the hook fired in each of them, and
\* in no model_forward call a module downstream of the hooked block runs.
C9_StopFwdCaughtPerBatch ==
    /\ exc # "StopFwdException"
    /\ ran \subseteq 1..block_idx
    /\ \A p \in 1..pass :
          PassEnded(p) =>
              \A b \in 1..NumBatches :
                 /\ \E k \in 1..Len(log) :
                       log[k].op = "model_forward" /\ log[k].pass = p /\ log[k].batch = b
                 /\ \E k \in 1..Len(log) :
                       /\ log[k].op \in {"store_inputs", "store_output"}
                       /\ log[k].pass = p
                       /\ log[k].batch = b
    /\ pc = "returned" => exc = "none"

\* the hook fired and raised in the first batch and the loop went on to run
\* the second batch up to the hooked block
C9_Witness ==
    /\ pc = "for_inps"
    /\ batch = 3
    /\ block_idx = 1
    /\ ran = {1}
    /\ exc = "none"
    /\ CountInPass("store_inputs", 1) = 2

TrainingPcs == {"freeze", "for_i", "block_forward", "block_loss", "save_best",
                "step", "finalize"}

\* C10: every capture pass that finishes removes the hook it registered: at
\* most one data-saver hook is registered at any time and none outside a
\* capture pass, in particular none while a block is trained, so block_forward
\* never stores into the cache (no store follows a sample_batch of the same
\* block) and StopFwdException is never raised out of the run.
C10_HookRemoved ==
    /\ Cardinality(hooks) <= 1
    /\ hooks # {} => pc \in {"for_inps", "model_forward", "aborted"}
    /\ pc \in TrainingPcs => hooks = {}
    /\ exc # "StopFwdException"
    /\ \A j, k \in 1..Len(log) :
          (j < k /\ log[j].op = "sample_batch"
                 /\ log[k].op \in {"store_inputs", "store_output"})
          => log[k].blk # log[j].blk

\* block_forward of a training iteration has run after two capture passes
\* registered and removed their hooks
C10_Witness ==
    /\ pc = "block_loss"
    /\ next_handle >= 2
    /\ hooks = {}
    /\ CountOp("sample_batch", block_idx) >= 1

\* ------------------------------------------------- gradient tracking
\* the blocks whose processing has ended (reset_cache was called for them)
Finalized(b) == CountOp("reset_cache", b) = 1
\* the blocks with at least one parameter that tracks gradients
TrainableBlocks == {b \in Blocks : \E n \in BlockModules : requires_grad[b][n]}

\* C11: at every optimizer step taken for a block, the parameters of that
\* block with gradient tracking enabled are exactly the parameters of the
\* learned-round modules returned for the block; every other parameter of
\* the block has gradient tracking disabled.
C11_OnlyRoundParamsTrainable ==
    pc = "step" =>
        \A n \in BlockModules :
            requires_grad[block_idx][n]
                <=> n \in SeqToSet(return_learned_round_quantizers(block_idx))

\* an optimizer step of the second block is about to be taken, the first
\* block having been trained and finalized before
C11_Witness ==
    /\ pc = "step"
    /\ block_idx = 2
    /\ i = 1
    /\ state[1][1] # 0

\* C12 as stated: finished blocks are and stay frozen, at any moment of a
\* block's training at most one block has trainable parameters, and after
\* the return no processed block has any.
C12_Original ==
    /\ \A b \in Blocks : Finalized(b) => \A n \in BlockModules : ~requires_grad[b][n]
    /\ pc \in {"for_i", "block_forward", "block_loss", "save_best", "step"}
           => Cardinality(TrainableBlocks) <= 1
    /\ pc = "done" => TrainableBlocks = {}

\* C12: once the window of a block has ended all its parameters, the
\* rounding parameters included, have gradient tracking disabled and stay
\* so for the rest of the run; while a block is trained the blocks with
\* trainable parameters are that block and the blocks not yet processed
\* (their parameters keep the gradient tracking they had at insertion), so at
\* most one block whose processing has begun is trainable; after
\* apply_learned_round returns no parameter of any block is trainable.
C12_FinishedBlocksStayFrozen ==
    /\ \A b \in Blocks : Finalized(b) => \A n \in BlockModules : ~requires_grad[b][n]
    /\ \A b \in TrainableBlocks : b >= block_idx
    /\ Cardinality({b \in TrainableBlocks : CountOp("clear_cache", b) = 1}) <= 1
    /\ pc \in {"for_i", "block_forward", "block_loss", "save_best", "step"}
           => \A b \in Blocks : b > block_idx => b \in TrainableBlocks
    /\ pc = "done" => TrainableBlocks = {}

\* the second block is being trained after the first one was finalized with
\* rounding parameters that training changed
C12_Witness ==
    /\ pc = "step"
    /\ block_idx = 2
    /\ Finalized(1)
    /\ state[1][1] # 0
    /\ TrainableBlocks = {2}

\* C13: an exception other than StopFwdException raised by model_forward
\* during capture, or any exception raised by block_forward or the loss
\* during training, leaves apply_learned_round: the run is aborted with that
\* exception, the block in flight is not retried and nothing is captured or
\* trained afterwards (the raise is the last entry of the call log).
C13_ExceptionsPropagate ==
    \A k \in 1..Len(log) :
        log[k].op = "raise" =>
            /\ k = Len(log)
            /\ pc = "aborted"
            /\ exc = "Exception"
            /\ block_idx = log[k].blk
            /\ ~Finalized(block_idx)

\* model_forward raised during the capture of the second block
C13_Witness ==
    /\ pc = "aborted"
    /\ exc = "Exception"
    /\ block_idx = 2
    /\ log[Len(log)].op = "raise"
    /\ CountOp("sample_batch", 2) = 0
    /\ CountOp("model_forward", 2) >= 1

\* C14: the rounding parameters of a finalized block are never changed again:
\* no step of the run taken after the block's reset_cache (the capture or the
\* training of a later block, the reload of a later block's best snapshot, or
\* an abort while a later block is in flight) modifies them.
C14_FinalizedParamsUntouched ==
    [][\A b \in Blocks : Finalized(b) => state'[b] = state[b]]_vars

\* the second block has taken an optimizer step while the first one, whose
\* rounding parameters training had changed, is finalized
C14_Witness ==
    /\ block_idx = 2
    /\ pc = "for_i"
    /\ i = 1
    /\ Finalized(1)
    /\ state[1][1] # 0
    /\ state[2][1] # 0

\* ------------------------------------------------------- mini-batches
\* a mini-batch has just been drawn (line 463)
BatchDrawn == pc = "block_forward"

\* C18: in every training iteration the sample indices passed to
\* cache.sample_batch are pairwise distinct and lie in 0..len(cache)-1, where
\* len(cache) is the value read once before the first iteration (the cache
\* length does not change while the block is trained).
C18_IndicesDistinctInRange ==
    /\ (pc = "for_i" \/ BatchDrawn) => n_samples = CacheLen(log)
    /\ BatchDrawn =>
          /\ \A a, b \in 1..Len(idxs) : a # b => idxs[a] # idxs[b]
          /\ \A a \in 1..Len(idxs) : idxs[a] \in 0..(n_samples - 1)

\* the second iteration of a block has drawn two indices
C18_Witness ==
    /\ pc = "block_forward"
    /\ i = 1
    /\ Len(idxs) = 2
    /\ n_samples = NumBatches

\* C19 as stated: the number of sample indices equals the configured batch
\* size for every cache sample count.
C19_Original == BatchDrawn => Len(idxs) = batch_size

\* C19: the number of sample indices equals the configured batch size when
\* the cache holds at least that many samples, and the cache sample count
\* when it holds fewer.
C19_BatchSizeCappedByCache ==
    BatchDrawn =>
        Len(idxs) = (IF batch_size <= n_samples THEN batch_size ELSE n_samples)

\* a batch drawn from a cache with fewer samples than the batch size
C19_Witness ==
    /\ pc = "block_forward"
    /\ batch_size > n_samples
    /\ Len(idxs) = n_samples
    /\ n_samples > 0

\* ---------------------------------------------------------- termination
\* the run is sequential: a step that can be taken is taken, as long as the
\* callables the optimizer invokes return
SpecLive == Init /\ [][Next]_vars /\ WF_vars(Next)

\* C17: the training of a block ends after exactly iters iterations, each
\* of them made of one sample_batch, one block_forward followed by one loss
\* evaluation, and one optimizer step, whatever the loss values are; with
\* finitely many blocks and calibration batches apply_learned_round
\* eventually returns (or leaves with the exception of a callable).
C17_TrainingTerminates ==
    /\ [](pc \in {"for_i", "block_forward", "block_loss", "save_best", "step"} =>
            /\ i <= iters
            /\ CountOp("sample_batch", block_idx) = i + (IF pc = "for_i" THEN 0 ELSE 1)
            /\ block_loss_iter = i + (IF pc \in {"save_best", "step"} THEN 1 ELSE 0)
            /\ Len(lossHist) = block_loss_iter
            /\ state[block_idx][1] = i)
    /\ [](pc = "finalize" =>
            /\ i = iters
            /\ CountOp("sample_batch", block_idx) = iters
            /\ block_loss_iter = iters)
    /\ <>(pc \in {"done", "aborted"})

\* both blocks have returned from a training of two
\* iterations, and the run has ended
C17_Witness ==
    /\ pc = "done"
    /\ iters = 2
    /\ CountOp("sample_batch", 1) = 2
    /\ CountOp("sample_batch", 2) = 2
    /\ state[2][1] # 0

\* ------------------------------------------------------------- get_blocks
\* the elements of a finite set of numbers in increasing order
RECURSIVE SortedSeq(_)
SortedSeq(S) ==
    IF S = {} THEN <<>>
    ELSE LET m == CHOOSE x \in S : \A y \in S : x <= y
         IN <<m>> \o SortedSeq(S \ {m})

\* module.named_children(): the children of module p (0 is the model itself)
\* in registration order; modules are numbered in registration order
named_children(m, p) == SortedSeq({n \in DOMAIN m : m[n] = p})

\* the module trees with k modules below the root: every module is registered
\* on the root or on a module created before it
Trees(k) == {m \in [1..k -> 0..(k - 1)] : \A n \in 1..k : m[n] < n}

\* a call of get_blocks on any model of at most MaxNodes modules and any
\* predicate over its modules
InitBlocks ==
    /\ InitCommon
    /\ UnitsIdle
    /\ iters = 0
    /\ use_best_model = FALSE
    /\ batch_size = 1
    /\ caller = "get_blocks"
    /\ keep_gpu = TRUE
    /\ return_quant_tensor = TRUE
    /\ block_idx = 0
    /\ capture_quant_input = TRUE
    /\ capture_quant_output = FALSE
    /\ log = <<>>
    /\ DecayIdle
    /\ AdaIdle
    /\ PassArgsUnset
    /\ learned_round_loss_class = "AutoRoundLoss"
    /\ round_modules = NumRoundModules
    /\ block_is_wbiol = FALSE
    /\ model_prepare_fn = FALSE
    /\ model_finish_fn = FALSE
    /\ pc = "get_blocks"
    /\ \E k \in 0..MaxNodes : model \in Trees(k)
    /\ block_check_fn \in SUBSET (DOMAIN model)
    /\ blocks = <<>>
    /\ todo = <<>>
    /\ got = <<>>

\* a list that is shared between the calls
FreshList_Shared(old) == old

\* line 219: blocks = []
FreshList(old) == <<>>

\* lines 219 and 232: get_blocks is entered: the result list is created and
\* _get_blocks is called on the model
CallGetBlocks ==
    /\ pc = "get_blocks"
    /\ Len(got) < MaxCalls
    /\ blocks' = FreshList(blocks)
    /\ todo' = named_children(model, 0)
    /\ pc' = "_get_blocks"
    /\ UNCHANGED <<model, block_check_fn, got, decayVars, adaVars, unitVars, fnVars,
                   learned_round_loss_class, model_prepare_fn,
                   model_finish_fn, round_modules,
                   block_is_wbiol, caller, iters,
                   use_best_model, batch_size, keep_gpu, block_idx,
                   captureArgs, passVars, quantVars, hookVars, fwdVars, log,
                   state, requires_grad, trainVars, ret, exc>>

\* a traversal that also expands the subtree of a block
Expand_Always(m, n, is_block) == named_children(m, n)

\* lines 225-228: the children _get_blocks goes on with below module n: none
\* when n is a block, its named children otherwise
Expand(m, n, is_block) == IF is_block THEN <<>> ELSE named_children(m, n)

\* lines 224-228: one iteration of the for loop of _get_blocks: the next
\* child is appended to blocks when the predicate accepts it, and is
\* traversed (before its later siblings) when it does not
VisitChild ==
    /\ pc = "_get_blocks"
    /\ todo # <<>>
    /\ LET n == Head(todo)
           is_block == n \in block_check_fn
       IN /\ blocks' = IF is_block THEN Append(blocks, n) ELSE blocks
          /\ todo' = Expand(model, n, is_block) \o Tail(todo)
    /\ UNCHANGED <<model, block_check_fn, got, pc, decayVars, adaVars, unitVars, fnVars,
                   learned_round_loss_class, model_prepare_fn,
                   model_finish_fn, round_modules,
                   block_is_wbiol, caller, iters,
                   use_best_model, batch_size, keep_gpu, block_idx,
                   captureArgs, passVars, quantVars, hookVars, fwdVars, log,
                   state, requires_grad, trainVars, ret, exc>>

\* line 233: return blocks
ReturnBlocks ==
    /\ pc = "_get_blocks"
    /\ todo = <<>>
    /\ got' = Append(got, blocks)
    /\ pc' = "get_blocks"
    /\ UNCHANGED <<model, block_check_fn, blocks, todo, decayVars, adaVars, unitVars,
                   fnVars, learned_round_loss_class, model_prepare_fn,
                   model_finish_fn, round_modules,
                   block_is_wbiol, caller,
                   iters, use_best_model, batch_size, keep_gpu, block_idx,
                   captureArgs, passVars, quantVars, hookVars, fwdVars, log,
                   state, requires_grad, trainVars, ret, exc>>

NextBlocks ==
    \/ CallGetBlocks
    \/ VisitChild
    \/ ReturnBlocks

SpecBlocks == InitBlocks /\ [][NextBlocks]_vars

\* the proper ancestors of module n below the root
RECURSIVE AncestorsBelowRoot(_, _)
AncestorsBelowRoot(m, n) ==
    IF m[n] = 0 THEN {} ELSE {m[n]} \cup AncestorsBelowRoot(m, m[n])

\* the modules of the subtrees rooted at the modules of the list ns, in
\* depth-first pre-order of named children
RECURSIVE PreOrder(_, _)
PreOrder(m, ns) ==
    IF ns = <<>> THEN <<>>
    ELSE <<Head(ns)>> \o PreOrder(m, named_children(m, Head(ns)))
                      \o PreOrder(m, Tail(ns))

\* the modules the predicate accepts none of whose proper ancestors below the
\* root it accepts
Outermost == {n \in block_check_fn :
                 AncestorsBelowRoot(model, n) \cap block_check_fn = {}}
IsOutermost(n) == n \in Outermost

\* C15: get_blocks returns exactly the modules below the root that satisfy
\* the predicate and have no proper ancestor below the root satisfying it,
\* in depth-first pre-order of named children; no returned block is a
\* descendant of another returned block.
C15_OutermostBlocksInPreOrder ==
    \A c \in 1..Len(got) :
        /\ got[c] = SelectSeq(PreOrder(model, named_children(model, 0)), IsOutermost)
        /\ \A a, b \in 1..Len(got[c]) :
              got[c][a] \notin AncestorsBelowRoot(model, got[c][b])

\* a call has returned two blocks out of pre-order with respect to their
\* numbers, on a model where the predicate also accepts a module nested in a
\* block
C15_Witness ==
    /\ Len(got) >= 1
    /\ Len(got[1]) = 2
    /\ got[1][1] > got[1][2]
    /\ \E n \in block_check_fn : AncestorsBelowRoot(model, n) \cap block_check_fn # {}

\* C16: two calls of get_blocks on the same unmodified model with the same
\* predicate return the same blocks in the same order, and no step of a call
\* modifies the model.
C16_RepeatableAndReadOnly ==
    /\ [](\A c, d \in 1..Len(got) : got[c] = got[d])
    /\ [][model' = model /\ block_check_fn' = block_check_fn]_vars

\* the second call has returned, with a result of two blocks
C16_Witness ==
    /\ Len(got) = 2
    /\ pc = "get_blocks"
    /\ Len(got[2]) = 2
    /\ Len(got[1]) = 2

\* -------------------------------------------------------- LinearTempDecay
\* Rational numbers are pairs [num, den] with den > 0. rel_start_decay is
\* held as the numerator of a fraction over DecayDen, so that start_decay
\* (line 88: rel_start_decay * t_max) is StartDecayNum / DecayDen.
Rat(n, d) == [num |-> n, den |-> d]
RatEq(a, b) == a.num * b.den = b.num * a.den
RatLeq(a, b) == a.num * b.den <= b.num * a.den
Max(a, b) == IF a > b THEN a ELSE b

StartDecayNum(tm, w) == w * tm

\* an interpolation factor that may go negative
Clamp_None(x) == x

\* line 97: max(0.0, .), on a numerator over a positive denominator
Clamp(x) == Max(0, x)

\* LinearTempDecay.__call__, lines 92-97, for a schedule built with
\* rel_start_decay = w / DecayDen; rel_t is x / d, and the division of line
\* 96 raises ZeroDivisionError when t_max equals start_decay
LinearTempDecay(tm, w, sb, eb, tt) ==
    IF tt * DecayDen < StartDecayNum(tm, w)
    THEN [exc |-> "none", val |-> Rat(sb, 1)]
    ELSE LET x == tt * DecayDen - StartDecayNum(tm, w)
             d == tm * DecayDen - StartDecayNum(tm, w)
         IN IF d = 0
            THEN [exc |-> "ZeroDivisionError", val |-> Rat(0, 1)]
            ELSE [exc |-> "none",
                  val |-> Rat(eb * d + (sb - eb) * Clamp(d - x), d)]

\* the iteration numbers a schedule is called with
Times == 0..(MaxT + 1)

\* a schedule built with any t_max, any rel_start_decay in [0, 1] and any
\* pair of bounds
InitDecay ==
    /\ InitCommon
    /\ UnitsIdle
    /\ iters = 0
    /\ use_best_model = FALSE
    /\ batch_size = 1
    /\ caller = "LinearTempDecay"
    /\ keep_gpu = TRUE
    /\ return_quant_tensor = TRUE
    /\ block_idx = 0
    /\ capture_quant_input = TRUE
    /\ capture_quant_output = FALSE
    /\ log = <<>>
    /\ BlocksIdle
    /\ AdaIdle
    /\ PassArgsUnset
    /\ learned_round_loss_class = "AutoRoundLoss"
    /\ round_modules = NumRoundModules
    /\ block_is_wbiol = FALSE
    /\ model_prepare_fn = FALSE
    /\ model_finish_fn = FALSE
    /\ pc = "temp_decay"
    /\ t_max \in 0..MaxT
    /\ rel_start_decay \in 0..DecayDen
    /\ start_b \in 0..MaxB
    /\ end_b \in 0..MaxB
    /\ t = 0
    /\ temp = <<>>

\* lines 92-97: the schedule is called with an iteration number
CallTempDecay ==
    /\ pc \in {"temp_decay", "temp_decayed"}
    /\ \E tt \in Times :
          /\ t' = tt
          /\ temp' = LinearTempDecay(t_max, rel_start_decay, start_b, end_b, tt)
    /\ pc' = "temp_decayed"
    /\ UNCHANGED <<t_max, rel_start_decay, start_b, end_b, blocksVars, adaVars, unitVars,
                   fnVars, learned_round_loss_class, model_prepare_fn,
                   model_finish_fn, round_modules,
                   block_is_wbiol, caller,
                   iters, use_best_model, batch_size, keep_gpu, block_idx,
                   captureArgs, passVars, quantVars, hookVars, fwdVars, log,
                   state, requires_grad, trainVars, ret, exc>>

NextDecay == CallTempDecay

SpecDecay == InitDecay /\ [][NextDecay]_vars

\* the value the schedule returns at iteration u
ValueAt(u) == LinearTempDecay(t_max, rel_start_decay, start_b, end_b, u).val
\* iteration u is at or after the start of the decay
Decaying(u) == u * DecayDen >= StartDecayNum(t_max, rel_start_decay)

\* C20 as stated, for every schedule with start_b >= end_b: the call returns
\* start_b before w*T; on [w*T, T] the value is non-increasing, start_b at
\* w*T and end_b at T; after T it stays at end_b.
C20_Original ==
    (pc = "temp_decayed" /\ start_b >= end_b) =>
        /\ temp.exc = "none"
        /\ ~Decaying(t) => RatEq(temp.val, Rat(start_b, 1))
        /\ t * DecayDen = StartDecayNum(t_max, rel_start_decay)
               => RatEq(temp.val, Rat(start_b, 1))
        /\ t >= t_max => RatEq(temp.val, Rat(end_b, 1))
        /\ (Decaying(t) /\ t <= t_max) =>
               \A u \in Times : (Decaying(u) /\ u <= t) => RatLeq(temp.val, ValueAt(u))

\* C20: for a schedule with start_b >= end_b whose decay starts before t_max
\* (w*T < T): the call returns start_b for every t < w*T; on [w*T, T] the
\* value is non-increasing in t, start_b at t = w*T and end_b at t = T; for
\* t > T it stays at end_b. When w*T = T (w = 1, or T = 0) the call returns
\* start_b for t < T and raises ZeroDivisionError for every t >= T.
C20_DecayFromStartToEnd ==
    (pc = "temp_decayed" /\ start_b >= end_b) =>
        IF StartDecayNum(t_max, rel_start_decay) < t_max * DecayDen
        THEN /\ temp.exc = "none"
             /\ ~Decaying(t) => RatEq(temp.val, Rat(start_b, 1))
             /\ t * DecayDen = StartDecayNum(t_max, rel_start_decay)
                    => RatEq(temp.val, Rat(start_b, 1))
             /\ t >= t_max => RatEq(temp.val, Rat(end_b, 1))
             /\ (Decaying(t) /\ t <= t_max) =>
                    \A u \in Times :
                        (Decaying(u) /\ u <= t) => RatLeq(temp.val, ValueAt(u))
        ELSE /\ t < t_max => (temp.exc = "none" /\ RatEq(temp.val, Rat(start_b, 1)))
             /\ t >= t_max => temp.exc = "ZeroDivisionError"

\* a call past t_max of a schedule that decays from a larger to a smaller
\* bound, starting strictly inside the run
C20_Witness ==
    /\ pc = "temp_decayed"
    /\ start_b > end_b
    /\ 0 < StartDecayNum(t_max, rel_start_decay)
    /\ StartDecayNum(t_max, rel_start_decay) < t_max * DecayDen
    /\ t > t_max
    /\ temp.exc = "none"
    /\ RatEq(temp.val, Rat(end_b, 1))

\* ---------------------------------------------------------------- C22
\* the calls of the block's loss object made so far by the running
\* _optimize_learned_round_block
LossCalls == IF pc \in {"save_best", "step"} THEN i + 1 ELSE i
\* the positions of _optimize_learned_round_block, where the loss object of
\* lines 570-573 exists
OptimizePcs == {"for_i", "block_forward", "block_loss", "save_best", "step"}

\* C22: while a block is trained the iteration counter of its loss object
\* equals the number of times the object was called since it was created, it
\* is 0 when the first iteration of every block begins, and a call of the
\* object raises it by exactly one while no other step of the training loop
\* changes it
C22_CounterCountsCalls ==
    /\ [](pc \in OptimizePcs =>
            /\ block_loss_iter = LossCalls
            /\ block_loss_iter = Len(lossHist))
    /\ [][/\ (pc = "block_loss" /\ pc' = "save_best")
               => block_loss_iter' = block_loss_iter + 1
          /\ (pc \in OptimizePcs /\ pc # "block_loss")
               => block_loss_iter' = block_loss_iter]_vars

\* the AdaRoundLoss of the second block has been called once, after the loss
\* object of the first block was called in every iteration
C22_Witness ==
    /\ learned_round_loss_class = "AdaRoundLoss"
    /\ block_idx = 2
    /\ iters = MaxIters
    /\ pc = "save_best"
    /\ i = 0
    /\ block_loss_iter = 1

\* ---------------------------------------------------------------- C23
\* the block handed to AdaRoundLoss is not a single quantized layer with one
\* learned-round module
BadAdaRoundBlock ==
    /\ learned_round_loss_class = "AdaRoundLoss"
    /\ ~block_is_wbiol \/ round_modules # 1

\* C23: the constructor of AdaRoundLoss fails when the block is not a
\* quantized layer or does not hold exactly one learned-round module: in
\* apply_learned_round the step that creates the loss object of such a block
\* ends the run with AssertionError, so no batch is sampled, no loss is
\* computed, no rounding parameter is stepped and the run never completes;
\* AssertionError ends no other run
C23_AdaRoundLossRejectsBlock ==
    /\ [](BadAdaRoundBlock =>
            /\ pc \notin OptimizePcs \cup {"finalize", "done"}
            /\ \A b \in Blocks : CountOp("sample_batch", b) = 0
            /\ \A b \in Blocks : \A n \in BlockModules : state[b][n] = 0
            /\ block_loss_iter = 0)
    /\ [](exc = "AssertionError" =>
            BadAdaRoundBlock /\ pc = "aborted" /\ block_idx = 1)
    /\ [][(pc = "freeze" /\ BadAdaRoundBlock)
             => (pc' = "aborted" /\ exc' = "AssertionError")]_vars

\* the run was ended by the constructor of AdaRoundLoss for a quantized layer
\* that holds two learned-round modules
C23_Witness ==
    /\ pc = "aborted"
    /\ exc = "AssertionError"
    /\ learned_round_loss_class = "AdaRoundLoss"
    /\ block_is_wbiol
    /\ round_modules = NumRoundModules
    /\ CountOp("store_inputs", 1) = NumBatches

\* ---------------------------------------------------------------- C24
\* the positions of the calls of op in the log
CallsOf(op) == {k \in 1..Len(log) : log[k].op = op}

\* C24: in a run that completes, model_prepare_fn is called once when it is
\* given and never otherwise, and its call comes before the insertion of the
\* learned-round quantizers and before every forward pass and every cache
\* call; model_finish_fn is called once when it is given and never otherwise,
\* its call is the last one of the run, made after every block was finalized,
\* and its second argument is the value model_prepare_fn returned (None when
\* model_prepare_fn is not given); no run calls model_finish_fn before it
\* completes
C24_PrepareFirstFinishLast ==
    /\ pc # "apply_learned_round" =>
          /\ Cardinality(CallsOf("model_prepare_fn"))
                = (IF model_prepare_fn THEN 1 ELSE 0)
          /\ model_prepare_fn => log[1].op = "model_prepare_fn"
          /\ model_dict = (IF model_prepare_fn THEN "model_dict" ELSE "None")
    /\ pc # "done" =>
          /\ CallsOf("model_finish_fn") = {}
          /\ finish_arg = "not called"
    /\ pc = "done" =>
          /\ Cardinality(CallsOf("model_finish_fn"))
                = (IF model_finish_fn THEN 1 ELSE 0)
          /\ \A b \in Blocks : Finalized(b)
          /\ model_finish_fn =>
                /\ log[Len(log)].op = "model_finish_fn"
                /\ finish_arg = model_dict
          /\ ~model_finish_fn => finish_arg = "not called"

\* a run with both callables has completed: model_finish_fn was handed the
\* dictionary model_prepare_fn returned
C24_Witness ==
    /\ pc = "done"
    /\ model_prepare_fn
    /\ model_finish_fn
    /\ finish_arg = "model_dict"
    /\ log[1].op = "model_prepare_fn"
    /\ log[Len(log)].op = "model_finish_fn"

\* ---------------------------------------------------------------- C25
\* the first iteration (numbered from 1) whose loss is the minimum of the
\* losses computed so far for the block
EarliestMin ==
    CHOOSE k \in 1..Len(lossHist) :
        /\ lossHist[k] = MinOf(LossesSeen)
        /\ \A j \in 1..(k - 1) : lossHist[j] # lossHist[k]
\* every computed loss has been compared with the best one
AllCompared == pc \in {"for_i", "block_forward", "block_loss", "step"}

\* C25 as stated: the reported best iteration is the earliest of the
\* iterations that attain the minimum loss, and lies in 1..iters
C25_Original ==
    (Returned /\ iters >= 1) =>
        /\ ret[3] \in 1..iters
        /\ ret[3] = EarliestMin

\* C25, amended: inside the training loop the best loss and its iteration are
\* replaced only when the current loss is strictly lower than the best one,
\* which starts at torch.finfo(torch.float).max: once a loss below that value
\* was seen, best_loss is the minimum of the losses so far and last_best_iter
\* is the earliest iteration that attains it, numbered from 1, and with
\* use_best_model enabled the snapshot is the one taken at that iteration (no
\* snapshot is taken with use_best_model disabled); before that
\* last_best_iter is iters and there is no snapshot. The reported best
\* iteration is that last_best_iter with use_best_model enabled and iters
\* with use_best_model disabled.
C25_EarliestMinimumKept ==
    /\ (AllCompared /\ lossHist # <<>>) =>
          IF \E l \in LossesSeen : l < FloatMax
          THEN /\ best_loss = MinOf(LossesSeen)
               /\ last_best_iter = EarliestMin
               /\ last_best_iter \in 1..iters
               /\ optimal_rounding_params =
                     IF use_best_model
                     THEN CollectRoundParams(paramHist[EarliestMin])
                     ELSE EmptyParams
          ELSE /\ best_loss = FloatMax
               /\ last_best_iter = iters
               /\ optimal_rounding_params = EmptyParams
    /\ (Returned /\ iters >= 1) =>
          ret[3] = IF use_best_model /\ \E l \in LossesSeen : l < FloatMax
                   THEN EarliestMin
                   ELSE iters

\* two iterations attained the same minimum loss and the first one is
\* reported, the block being back at the parameters of that iteration
C25_Witness ==
    /\ Returned
    /\ use_best_model
    /\ Len(lossHist) = 2
    /\ lossHist[1] = lossHist[2]
    /\ lossHist[1] < FloatMax
    /\ ret[3] = 1
    /\ paramHist[2] # paramHist[1]
    /\ state[block_idx] = paramHist[1]

\* ---------------------------------------------------------------- C26
\* the order of the steps of one training iteration, as pairs of positions
IterationOrder ==
    {<<"for_i", "block_forward">>, <<"block_forward", "block_loss">>,
     <<"block_loss", "save_best">>, <<"save_best", "step">>,
     <<"step", "for_i">>}

\* C26: every training iteration samples its mini-batch, runs the block,
\* computes the loss, compares it with the best one and only then makes its
\* gradient step: the parameters of the block are the same from the sampling
\* to the comparison, a snapshot recorded at iteration i holds the rounding
\* parameters the loss of iteration i was computed with, and it is recorded
\* in the step before the gradient step of iteration i, which is the only
\* step of the iteration that changes the parameters and the one that ends it
C26_SnapshotBeforeStep ==
    /\ [](pc \in {"block_loss", "save_best", "step"} =>
             CountOp("sample_batch", block_idx) = i + 1)
    /\ [](pc \in {"save_best", "step"} =>
             /\ Len(paramHist) = i + 1
             /\ paramHist[i + 1] = state[block_idx])
    /\ [][/\ (pc \in OptimizePcs /\ pc' \in OptimizePcs /\ pc' # pc)
               => <<pc, pc'>> \in IterationOrder
          /\ (pc \in OptimizePcs /\ pc' \in OptimizePcs /\ pc # "step")
               => (state' = state /\ i' = i)
          /\ pc = "step" => (pc' = "for_i" /\ i' = i + 1)
          /\ (pc \in OptimizePcs
              /\ optimal_rounding_params' # optimal_rounding_params)
               => /\ pc = "save_best"
                  /\ lossHist[i + 1] = curr_loss
                  /\ optimal_rounding_params'
                        = CollectRoundParams(paramHist[i + 1])
                  /\ state' = state]_vars

\* the snapshot of the first iteration was recorded and the gradient step of
\* that iteration then changed the parameters of the block
C26_Witness ==
    /\ pc = "for_i"
    /\ i = 1
    /\ use_best_model
    /\ last_best_iter = 1
    /\ optimal_rounding_params = CollectRoundParams(paramHist[1])
    /\ CollectRoundParams(state[block_idx]) # optimal_rounding_params

\* ---------------------------------------------------------------- C27
\* the calls a step appended to the log
Appended == SubSeq(log', Len(log) + 1, Len(log'))
\* the step is an invocation of the data-saver hook h: model_forward ran the
\* module the hook is registered on
HookInvoked(h) ==
    /\ pc = "model_forward"
    /\ ran' # ran
    /\ h \in hooks
    /\ h.module = fwd_pos

\* C27: every invocation of the data-saver hook makes one store_inputs call
\* iff its store_inputs flag is set, then one store_output call iff its
\* store_output flag is set, and no other call, and then raises
\* StopFwdException whatever the flags are: the model_forward call that
\* invoked the hook ends there, no module after the hooked one runs, and
\* _save_inputs_output goes on with the next batch
C27_HookStoresThenRaises ==
    [][\A h \in hooks :
          HookInvoked(h) =>
             /\ Appended =
                   (IF h.store_inputs
                    THEN <<Ev("store_inputs", block_idx, act_quant /\ param_quant,
                              ~h.keep_gpu, pass, batch)>>
                    ELSE <<>>)
                   \o
                   (IF h.store_output
                    THEN <<Ev("store_output", block_idx, act_quant /\ param_quant,
                              ~h.keep_gpu, pass, batch)>>
                    ELSE <<>>)
             /\ pc' = "for_inps"
             /\ batch' = batch + 1
             /\ fwd_pos' = fwd_pos
             /\ exc' = "none"]_vars

\* a hook with both flags unset has been invoked for every batch: nothing was
\* stored and the pass ended
C27_Witness ==
    /\ caller = "_save_inputs_output"
    /\ pc = "returned"
    /\ ~store_inputs
    /\ ~store_output
    /\ CallsOf("model_forward") # {}
    /\ Cardinality(CallsOf("model_forward")) = Len(log)
    /\ ran = 1..block_idx

\* ---------------------------------------------------------------- C28
\* activation and parameter quantization are both enabled in the model
QuantEnabled == act_quant /\ param_quant
\* some model_forward call was made with quantization disabled
RanUnquantized ==
    \E k \in 1..Len(log) : log[k].op = "model_forward" /\ ~log[k].quant
\* a capture pass is running
InPass == pc \in {"for_inps", "model_forward"}

\* C28: a capture pass runs with quantization disabled exactly when it was
\* asked to disable it; when such a pass ends, activation and parameter
\* quantization are enabled again and return_quant_tensor is back at the
\* value saved when the pass began; hence quantization is enabled whenever
\* _populate_cache has returned, for every combination of capture_quant_input
\* and capture_quant_output, with return_quant_tensor at the value it had
\* before the call, and quantization is enabled at every step of the training
\* of a block
C28_QuantizationRestored ==
    /\ [](InPass => (QuantEnabled <=> ~disable_quant))
    /\ [](InPass => (act_quant <=> param_quant))
    /\ [](pc = "returned" => QuantEnabled)
    /\ [](pc \in TrainingPcs \cup {"for_block", "done"} => QuantEnabled)
    /\ [][(pc = "for_inps" /\ ~InPass' /\ disable_quant) =>
             /\ act_quant' /\ param_quant'
             /\ return_quant_tensor' = return_quant_tensor_state]_vars
    /\ [][(pc = "_save_inputs_output" /\ pc' # pc /\ disable_quant') =>
             return_quant_tensor_state' = return_quant_tensor]_vars
    /\ [](pc = "returned" /\ RanUnquantized =>
             return_quant_tensor = return_quant_tensor_state)
    /\ [][return_quant_tensor' # return_quant_tensor =>
             \/ pc = "_save_inputs_output" /\ disable_quant'
             \/ pc = "for_inps" /\ disable_quant]_vars

\* _populate_cache has returned after a first pass that ran with quantization
\* enabled and a second pass that ran with quantization disabled, on a model
\* whose layers return quantized tensors
C28_Witness ==
    /\ pc = "returned"
    /\ caller = "_populate_cache"
    /\ pass = 2
    /\ act_quant /\ param_quant /\ return_quant_tensor
    /\ \E k \in 1..Len(log) :
          log[k].op = "model_forward" /\ log[k].pass = 2 /\ ~log[k].quant
    /\ \E k \in 1..Len(log) :
          log[k].op = "model_forward" /\ log[k].pass = 1 /\ log[k].quant

\* ---------------------------------------------------------------- C29
\* the run was ended by an exception model_forward raised during a capture
\* pass: the data loader of the pass was not exhausted
AbortedInCapture ==
    pc = "aborted" /\ exc = "Exception" /\ pass >= 1 /\ batch <= NumBatches

\* C29: a run of apply_learned_round that an exception ended has cleaned up
\* nothing: reset_cache was not called for the block in flight and
\* model_finish_fn was not called; when the exception came out of
\* model_forward during a capture pass, the data-saver hook of the pass is
\* still registered on the block and quantization is disabled if the pass had
\* disabled it (return_quant_tensor included) and enabled otherwise
C29_NoCleanupOnAbort ==
    /\ pc = "aborted" =>
          /\ block_idx \in Blocks
          /\ CountOp("reset_cache", block_idx) = 0
          /\ CallsOf("model_finish_fn") = {}
          /\ finish_arg = "not called"
    /\ AbortedInCapture =>
          /\ hooks = {NewHook(handle, block_idx, store_inputs, store_output,
                              keep_gpu)}
          /\ disable_quant =>
                ~act_quant /\ ~param_quant /\ ~return_quant_tensor
          /\ ~disable_quant => QuantEnabled

\* model_forward raised in the second capture pass of the second block, which
\* runs with quantization disabled, in a run that was given a model_finish_fn
C29_Witness ==
    /\ AbortedInCapture
    /\ model_finish_fn
    /\ block_idx = 2
    /\ pass = 2
    /\ disable_quant
    /\ ~act_quant
    /\ hooks # {}

\* ---------------------------------------------------------------- C30
\* C30 as stated: with iters = 0 the optimization of a block ends without an
\* error for both settings of use_best_model: it is never left by the
\* UnboundLocalError of line 500, and when it returns the rounding parameters
\* of the block are the inserted ones and the result is a triple
C30_Original ==
    iters = 0 =>
        /\ exc # "UnboundLocalError"
        /\ Returned =>
              /\ Len(ret) = 3
              /\ \A n \in RoundModules : state[block_idx][n] = 0

\* ------------------------------------------------------------ AdaRoundLoss
\* LearnedRoundSte, lines 80-114 of brevitas/core/function_wrapper/
\* learned_round.py: the attributes and methods the class defines
LearnedRoundSteAttrs ==
    {"learned_round_impl", "tensor_slicer", "value", "forward",
     "_load_from_state_dict"}

\* line 133: rel_start_decay = warmup + (1.0 - warmup) * decay_start, as a
\* numerator over DecayDen, for decay_start 0 or 1
RelStartDecay(w, ds) == w + (DecayDen - w) * ds

\* line 143: self.iter < self.loss_start, loss_start being max_count * warmup
\* (line 129) with warmup = w / DecayDen
BeforeLossStart(it, mc, w) == it * DecayDen < mc * w

\* the arguments of AdaRoundLoss(module, learned_round_modules, max_count,
\* b_range, warmup, decay_start) before the constructor runs: any block, any
\* max_count, any warmup in [0, 1], decay_start 0 or 1, any pair of bounds
InitAda ==
    /\ InitCommon
    /\ UnitsIdle
    /\ iters = 0
    /\ use_best_model = FALSE
    /\ batch_size = 1
    /\ caller = "AdaRoundLoss"
    /\ keep_gpu = TRUE
    /\ return_quant_tensor = TRUE
    /\ block_idx = 0
    /\ capture_quant_input = TRUE
    /\ capture_quant_output = FALSE
    /\ log = <<>>
    /\ BlocksIdle
    /\ PassArgsUnset
    /\ learned_round_loss_class = "AdaRoundLoss"
    /\ round_modules \in 1..NumRoundModules
    /\ block_is_wbiol \in BOOLEAN
    /\ model_prepare_fn = FALSE
    /\ model_finish_fn = FALSE
    /\ pc = "AdaRoundLoss"
    /\ t_max \in 0..MaxT
    /\ warmup \in 0..DecayDen
    /\ decay_start \in {0, 1}
    /\ start_b \in 0..MaxB
    /\ end_b \in 0..MaxB
    /\ rel_start_decay = 0
    /\ t = 0
    /\ temp = <<>>
    /\ round_loss = 0

\* AdaRoundLoss.__init__, lines 113-136: the two assertions, then the fields
AdaRoundLossInit ==
    /\ pc = "AdaRoundLoss"
    /\ IF AdaRoundAccepts(block_is_wbiol, round_modules)
       THEN /\ rel_start_decay' = RelStartDecay(warmup, decay_start)
            /\ block_loss_iter' = NewLossIter(block_loss_iter)
            /\ pc' = "loss_built"
            /\ exc' = exc
       ELSE /\ UNCHANGED <<rel_start_decay, block_loss_iter>>
            /\ pc' = "aborted"
            /\ exc' = "AssertionError"
    /\ UNCHANGED <<t_max, start_b, end_b, t, temp, blocksVars, adaVars, unitVars, fnVars,
                   configVars, block_idx, captureArgs, passVars, quantVars,
                   hookVars, fwdVars, log, state, requires_grad, i, best_loss,
                   init_loss, curr_loss, last_best_iter,
                   optimal_rounding_params, n_samples, idxs, lossHist,
                   paramHist, ret>>

\* AdaRoundLoss.__call__, lines 138-152: the counter advances, the
\* temperature is read from the schedule, and the regularization term is 0
\* before loss_start and computed from learned_round_module.p_forward() from
\* then on; p_forward is looked up on the LearnedRoundSte module and the
\* lookup of a name the class does not define raises AttributeError
AdaRoundLossCall ==
    /\ pc = "loss_built"
    /\ block_loss_iter <= MaxT
    /\ LET it == block_loss_iter + 1
           b == LinearTempDecay(t_max, rel_start_decay, start_b, end_b, it)
       IN /\ block_loss_iter' = it
          /\ t' = it
          /\ IF b.exc # "none"
             THEN /\ pc' = "aborted"
                  /\ exc' = b.exc
                  /\ UNCHANGED <<temp, round_loss>>
             ELSE /\ temp' = b
                  /\ IF BeforeLossStart(it, t_max, warmup)
                     THEN /\ round_loss' = 0
                          /\ pc' = pc
                          /\ exc' = exc
                     ELSE IF "p_forward" \in LearnedRoundSteAttrs
                          THEN /\ round_loss' \in Losses
                               /\ pc' = pc
                               /\ exc' = exc
                          ELSE /\ round_loss' = round_loss
                               /\ pc' = "aborted"
                               /\ exc' = "AttributeError"
    /\ UNCHANGED <<t_max, rel_start_decay, start_b, end_b, blocksVars, unitVars, warmup,
                   decay_start, fnVars, configVars, block_idx, captureArgs,
                   passVars, quantVars, hookVars, fwdVars, log, state,
                   requires_grad, i, best_loss, init_loss, curr_loss,
                   last_best_iter, optimal_rounding_params, n_samples, idxs,
                   lossHist, paramHist, ret>>

NextAda ==
    \/ AdaRoundLossInit
    \/ AdaRoundLossCall

SpecAda == InitAda /\ [][NextAda]_vars

\* ---------------------------------------------------------------- C21
\* C21 as stated, for a loss object built with max_count >= 1 and a decay
\* that starts before max_count: a call of AdaRoundLoss made strictly before
\* the warmup end returns with a regularization term of exactly 0, and a call
\* made at or after the warmup end returns too, with a regularization term
\* computed from the rounding values and the temperature of that iteration
C21_Original ==
    (/\ caller = "AdaRoundLoss"
     /\ block_loss_iter >= 1
     /\ t_max >= 1
     /\ rel_start_decay < DecayDen) =>
        /\ exc = "none"
        /\ temp = LinearTempDecay(t_max, rel_start_decay, start_b, end_b,
                                  block_loss_iter)
        /\ BeforeLossStart(block_loss_iter, t_max, warmup) => round_loss = 0

\* ========================================================== other units
\* the variables of the learned-round optimizer and of the loss schedules,
\* which the units below leave alone
optimizerVars ==
    <<blocksVars, decayVars, adaVars, fnVars, configVars, block_idx,
      captureArgs, passVars, quantVars, hookVars, fwdVars, log, state,
      requires_grad, trainVars, ret>>

\* no learned-round optimizer, get_blocks, schedule or loss under study
OptimizerIdle ==
    /\ InitCommon
    /\ BlocksIdle
    /\ DecayIdle
    /\ AdaIdle
    /\ PassArgsUnset
    /\ iters = 0
    /\ use_best_model = FALSE
    /\ batch_size = 1
    /\ keep_gpu = TRUE
    /\ return_quant_tensor = TRUE
    /\ block_idx = 0
    /\ capture_quant_input = TRUE
    /\ capture_quant_output = FALSE
    /\ log = <<>>
    /\ learned_round_loss_class = "AutoRoundLoss"
    /\ round_modules = NumRoundModules
    /\ block_is_wbiol = FALSE
    /\ model_prepare_fn = FALSE
    /\ model_finish_fn = FALSE

\* ----------------------------------------------------------- llm_benchmark
\* s[a:b] of Python for 0 <= a <= b: the end of the slice is clamped to the
\* length of the list
PySlice(s, a, b) == SubSeq(s, a + 1, Min(b, Len(s)))

\* line 289: len(cuda_available_devices) // num_gpus_per_process
NumProcesses(g, n) == Len(g) \div n

\* lines 293-294: the devices made visible to process i; the comma-separated
\* string is held as the list of identifiers it joins
VisibleDevices(g, k, n) == PySlice(g, k, k + n)

\* the combinations itertools.product yields (line 267), in order
Products == 1..MaxCombos

\* a loop that makes one attempt more than max_num_retries
RetryAllowed_Inclusive(k, max) == k <= max

\* line 108: while num_retries < max_num_retries
RetryAllowed(k, max) == k < max

\* line 89: Queue.get removes the element it returns
QueueAfterGet(q) == Tail(q)

\* multiprocessing.Process(target=run_args_bucket_process, ...), lines
\* 295-307, and the locals of the worker before its loop (lines 80-84)
NewProcess(ident, devices) ==
    [id |-> ident, cuda_visible_devices |-> devices, pc |-> "get", args |-> 0,
     num_retries |-> 0]

\* the job folder of a combination: whether config.yaml was written, and the
\* content of run_results.yaml if it was written
NoJob == [config |-> FALSE, run_results |-> <<>>]

\* the state at line 266 of a launch with an ascending GPU list
InitBench ==
    /\ OptimizerIdle
    /\ BesideBenchIdle
    /\ pc = "__main__"
    /\ caller = "llm_benchmark"
    /\ \E k \in 1..MaxWorkers : gpus = [j \in 1..k |-> j - 1]
    /\ num_gpus_per_process \in 1..MaxWorkers
    /\ max_num_retries \in 0..MaxRetries
    /\ combinations \in SUBSET Products
    /\ args_queue = <<>>
    /\ processes = <<>>
    /\ joined = 0
    /\ job_folders = [c \in Products |-> NoJob]
    /\ attempts = [c \in Products |-> <<>>]

\* the state at line 266 of a launch with any GPU list over MaxGpus
\* identifiers
InitGpus ==
    /\ OptimizerIdle
    /\ BesideBenchIdle
    /\ pc = "__main__"
    /\ caller = "llm_benchmark"
    /\ \E k \in 1..MaxGpus : gpus \in [1..k -> 0..(MaxGpus - 1)]
    /\ num_gpus_per_process \in 1..MaxGpus
    /\ max_num_retries = 1
    /\ combinations \in SUBSET Products
    /\ args_queue = <<>>
    /\ processes = <<>>
    /\ joined = 0
    /\ job_folders = [c \in Products |-> NoJob]
    /\ attempts = [c \in Products |-> <<>>]

\* lines 266-289: the combinations that validate are put into the queue in
\* the order of the product, the others are dropped; the GPU list is parsed
EnqueueCombinations ==
    /\ pc = "__main__"
    /\ args_queue' = SortedSeq(combinations)
    /\ pc' = "for_i_in_range"
    /\ UNCHANGED <<gpus, num_gpus_per_process, max_num_retries, combinations,
                   processes, joined, job_folders, attempts, restOfBench,
                   optimizerVars,
                   exc>>

\* lines 292-308: the next worker process is created with its slice of the
\* GPU list and started
StartProcess ==
    /\ pc = "for_i_in_range"
    /\ Len(processes) < NumProcesses(gpus, num_gpus_per_process)
    /\ processes' = Append(processes,
           NewProcess(Len(processes),
                      VisibleDevices(gpus, Len(processes), num_gpus_per_process)))
    /\ UNCHANGED <<gpus, num_gpus_per_process, max_num_retries, combinations,
                   args_queue, joined, job_folders, attempts, restOfBench,
                   optimizerVars,
                   pc, exc>>

\* lines 311-312: every process was started; join returns for the next
\* process of the list once it has terminated
JoinProcess ==
    /\ pc = "for_i_in_range"
    /\ Len(processes) = NumProcesses(gpus, num_gpus_per_process)
    /\ joined < Len(processes)
    /\ processes[joined + 1].pc = "terminated"
    /\ joined' = joined + 1
    /\ UNCHANGED <<gpus, num_gpus_per_process, max_num_retries, combinations,
                   args_queue, processes, job_folders, attempts,
                   restOfBench, optimizerVars, pc, exc>>

\* the job folders found by os.scandir
JobFolders == {c \in Products : job_folders[c].config}

\* lines 314-315 and parse_results, lines 190-234: every process was joined;
\* the results of the job folders are read: a folder without run_results.yaml
\* raises FileNotFoundError, no folder at all raises ValueError
ParseResults ==
    /\ pc = "for_i_in_range"
    /\ Len(processes) = NumProcesses(gpus, num_gpus_per_process)
    /\ joined = Len(processes)
    /\ IF \E c \in JobFolders : job_folders[c].run_results = <<>>
       THEN pc' = "aborted" /\ exc' = "FileNotFoundError"
       ELSE IF JobFolders = {}
       THEN pc' = "aborted" /\ exc' = "ValueError"
       ELSE pc' = "done" /\ exc' = exc
    /\ UNCHANGED <<benchVars, restOfBench, optimizerVars>>

\* lines 86-107 of run_args_bucket_process: worker w takes the next
\* combination from the queue, creates its job folder and writes config.yaml;
\* on an empty queue the get times out and the worker leaves its loop
QueueGet(w) ==
    /\ processes[w].pc = "get"
    /\ IF args_queue # <<>>
       THEN LET c == Head(args_queue)
            IN /\ args_queue' = QueueAfterGet(args_queue)
               /\ processes' = [processes EXCEPT ![w].pc = "while_retries",
                                                 ![w].args = c,
                                                 ![w].num_retries = 0]
               /\ job_folders' = [job_folders EXCEPT ![c].config = TRUE]
               /\ attempts' = [attempts EXCEPT
                                  ![c] = Append(@, [proc |-> processes[w].id,
                                                    op |-> "get"])]
       ELSE /\ processes' = [processes EXCEPT ![w].pc = "terminated"]
            /\ UNCHANGED <<args_queue, job_folders, attempts>>
    /\ UNCHANGED <<gpus, num_gpus_per_process, max_num_retries, combinations,
                   joined, restOfBench, optimizerVars, pc, exc>>

\* lines 136-137: the status and retry_number written to run_results.yaml
RunResults(raised, n) ==
    [status |-> IF raised THEN "crashed" ELSE "succesful", retry_number |-> n]

\* lines 108-145: one attempt of worker w: the entry point returns results or
\* raises, the attempt is counted, run_results.yaml is overwritten, and the
\* worker goes to the next combination when it has results
RunEntrypoint(w) ==
    /\ processes[w].pc = "while_retries"
    /\ RetryAllowed(processes[w].num_retries, max_num_retries)
    /\ \E raised \in BOOLEAN :
          LET c == processes[w].args
              n == processes[w].num_retries + 1
          IN /\ processes' = [processes EXCEPT
                                 ![w].num_retries = n,
                                 ![w].pc = IF raised THEN "while_retries"
                                           ELSE "get"]
             /\ job_folders' = [job_folders EXCEPT
                                   ![c].run_results = <<RunResults(raised, n)>>]
             /\ attempts' = [attempts EXCEPT
                                ![c] = Append(@, [proc |-> processes[w].id,
                                                  op |-> IF raised THEN "raised"
                                                         ELSE "returned"])]
    /\ UNCHANGED <<gpus, num_gpus_per_process, max_num_retries, combinations,
                   args_queue, joined, restOfBench, optimizerVars, pc, exc>>

\* line 108: the retry loop is left without results
RetriesExhausted(w) ==
    /\ processes[w].pc = "while_retries"
    /\ ~RetryAllowed(processes[w].num_retries, max_num_retries)
    /\ processes' = [processes EXCEPT ![w].pc = "get"]
    /\ UNCHANGED <<gpus, num_gpus_per_process, max_num_retries, combinations,
                   args_queue, joined, job_folders, attempts, restOfBench,
                   optimizerVars,
                   pc, exc>>

NextBench ==
    \/ EnqueueCombinations
    \/ StartProcess
    \/ JoinProcess
    \/ ParseResults
    \/ \E w \in 1..Len(processes) : QueueGet(w)
    \/ \E w \in 1..Len(processes) : RunEntrypoint(w)
    \/ \E w \in 1..Len(processes) : RetriesExhausted(w)

SpecBench == InitBench /\ [][NextBench]_vars

\* the launcher up to the start of its processes
NextGpus ==
    \/ EnqueueCombinations
    \/ StartProcess

SpecGpus == InitGpus /\ [][NextGpus]_vars

\* ---------------------------------------------------------------- C31
IsAttempt(e) == e.op # "get"
\* the attempts made for combination c, in order
AttemptsOf(c) == SelectSeq(attempts[c], IsAttempt)
\* combination c was taken from the queue and its worker has left the retry
\* loop of the combination
Handled(c) ==
    /\ attempts[c] # <<>>
    /\ \A w \in 1..Len(processes) :
          ~(processes[w].pc = "while_retries" /\ processes[w].args = c)

\* C31: for every combination a worker took from the queue, at most
\* max_num_retries attempts are made; every attempt but the last one raised,
\* so no attempt follows one that returned results; when the worker is done
\* with the combination, either the last attempt returned results or
\* max_num_retries attempts were made; and run_results.yaml, once written,
\* holds the number of attempts made so far and the status crashed iff the
\* last attempt raised
C31_RetriesBounded ==
    \A c \in Products :
       LET a == AttemptsOf(c)
       IN /\ Len(a) <= max_num_retries
          /\ \A k \in 1..(Len(a) - 1) : a[k].op = "raised"
          /\ Handled(c) =>
                \/ Len(a) = max_num_retries
                \/ a # <<>> /\ a[Len(a)].op = "returned"
          /\ job_folders[c].run_results =
                IF a = <<>> THEN <<>>
                ELSE <<[status |-> IF a[Len(a)].op = "raised" THEN "crashed"
                                   ELSE "succesful",
                        retry_number |-> Len(a)]>>

\* with max_num_retries = 2, a combination crashed in its first attempt and
\* returned results in the second, and another one crashed twice
C31_Witness ==
    /\ max_num_retries = 2
    /\ \E c \in Products :
          /\ Handled(c)
          /\ Len(AttemptsOf(c)) = 2
          /\ AttemptsOf(c)[1].op = "raised"
          /\ AttemptsOf(c)[2].op = "returned"
          /\ job_folders[c].run_results[1].retry_number = 2
    /\ \E c \in Products :
          /\ Handled(c)
          /\ Len(AttemptsOf(c)) = 2
          /\ AttemptsOf(c)[2].op = "raised"
          /\ job_folders[c].run_results[1].status = "crashed"

\* the identifiers of a list, as a set
Elems(s) == {s[k] : k \in 1..Len(s)}

\* a GPU list that names no device twice
DuplicateFree(s) == \A a, b \in 1..Len(s) : s[a] = s[b] => a = b

\* C33 (as stated): every started worker holds exactly num_gpus_per_process
\* GPU identifiers of --gpus, and the GPU sets of two different workers are
\* disjoint, for every duplicate-free GPU list and every
\* num_gpus_per_process >= 1
C33_Original ==
    DuplicateFree(gpus) =>
        /\ \A w \in 1..Len(processes) :
              /\ Len(processes[w].cuda_visible_devices) = num_gpus_per_process
              /\ Elems(processes[w].cuda_visible_devices) \subseteq Elems(gpus)
        /\ \A v, w \in 1..Len(processes) :
              v # w => Elems(processes[v].cuda_visible_devices)
                          \cap Elems(processes[w].cuda_visible_devices) = {}

\* every started worker has left its loop
AllTerminated ==
    /\ Len(processes) = NumProcesses(gpus, num_gpus_per_process)
    /\ \A w \in 1..Len(processes) : processes[w].pc = "terminated"

\* the entries of attempts[c] that take c from the queue
IsGet(e) == e.op = "get"

\* combination c was taken from the queue once and the entry point was called
\* for it, by the worker that took it
ExecutedByOneWorker(c) ==
    /\ Len(SelectSeq(attempts[c], IsGet)) = 1
    /\ AttemptsOf(c) # <<>>
    /\ \A a, b \in 1..Len(attempts[c]) : attempts[c][a].proc = attempts[c][b].proc

\* C32 (as stated): with one or more workers reading the shared queue, once
\* the workers have terminated every enqueued combination was executed by
\* exactly one worker, none twice and none skipped, and the results are parsed
\* only after every worker has terminated
C32_Original ==
    /\ (AllTerminated /\ Len(processes) >= 1) =>
          \A c \in combinations : ExecutedByOneWorker(c)
    /\ pc \in {"done", "aborted"} => AllTerminated /\ joined = Len(processes)

\* ---------------------------------------------------------------------------
\* brevitas_examples/llm/llm_quant/distributed_utils.py
\* ---------------------------------------------------------------------------

Ranks == 1..MaxRanks
Models == 1..MaxModels

\* int(os.environ.get('LOCAL_RANK', -1)): an unset variable reads as -1
LocalRank(env) == IF env = Unbound THEN -1 ELSE env

\* is_multi_process, lines 9-10
is_multi_process(env) == LocalRank(env) # -1

\* is_main_process, lines 13-14
is_main_process(env) == LocalRank(env) \in {-1, 0}

\* a wrapper that runs func only on the process whose rank is process_index
OnProcessRuns_RankOnly(curr_process_index, index) ==
    index = curr_process_index

\* line 22: the condition under which _wrapper calls func
OnProcessRuns(curr_process_index, index) ==
    curr_process_index = -1 \/ index = curr_process_index

\* func(model, *args, **kwargs): a value that is not one of the models
Func(m) == m + MaxModels

\* the environments of a run: one process without LOCAL_RANK, or the ranks
\* 0..n-1 that a distributed launcher sets
InitDist ==
    /\ OptimizerIdle
    /\ BesideDistIdle
    /\ pc = "decorate"
    /\ caller = "distributed_utils"
    /\ \/ LOCAL_RANK = <<Unbound>>
       \/ \E n \in Ranks : LOCAL_RANK = [r \in 1..n |-> r - 1]
    /\ decorator \in {"on_process", "on_main_process"}
    /\ process_index = Unbound
    /\ model_arg \in Models
    /\ wrapper_pc = [r \in 1..Len(LOCAL_RANK) |-> "call"]
    /\ wrapper_ret = [r \in 1..Len(LOCAL_RANK) |-> Unbound]
    /\ func_calls = [r \in 1..Len(LOCAL_RANK) |-> 0]

\* on_process(func, process_index), lines 17-30, and on_main_process, line 33,
\* which fixes process_index = 0
OnProcess ==
    /\ pc = "decorate"
    /\ pc' = "wrapped"
    /\ IF decorator = "on_main_process"
       THEN process_index' = 0
       ELSE process_index' \in 0..MaxRanks
    /\ UNCHANGED <<LOCAL_RANK, decorator, model_arg, wrapper_pc, wrapper_ret,
                   func_calls, restOfDist, optimizerVars, exc>>

\* _wrapper(model), lines 20-28, in process r
Wrapper(r) ==
    /\ pc = "wrapped"
    /\ wrapper_pc[r] = "call"
    /\ wrapper_pc' = [wrapper_pc EXCEPT ![r] = "returned"]
    /\ IF OnProcessRuns(LocalRank(LOCAL_RANK[r]), process_index)
       THEN /\ func_calls' = [func_calls EXCEPT ![r] = @ + 1]
            /\ wrapper_ret' = [wrapper_ret EXCEPT ![r] = Func(model_arg)]
       ELSE /\ func_calls' = func_calls
            /\ wrapper_ret' = [wrapper_ret EXCEPT ![r] = model_arg]
    /\ UNCHANGED <<LOCAL_RANK, decorator, process_index, model_arg,
                   restOfDist, optimizerVars, pc, exc>>

NextDist ==
    \/ OnProcess
    \/ \E r \in 1..Len(LOCAL_RANK) : Wrapper(r)

SpecDist == InitDist /\ [][NextDist]_vars

\* the processes whose wrapper has returned
WrapperReturned == {r \in 1..Len(LOCAL_RANK) : wrapper_pc[r] = "returned"}

\* C34: a wrapper that has returned called func exactly once if LOCAL_RANK is
\* unset or equals process_index, and otherwise did not call it and returned
\* its model argument; once every process of a multi-process run with ranks
\* 0..n-1 has returned from an on_main_process wrapper, exactly one process
\* has called func and is_main_process() is true in it; a single process
\* without LOCAL_RANK always calls func
C34_OnProcess ==
    /\ \A r \in WrapperReturned :
          IF LOCAL_RANK[r] = Unbound \/ LOCAL_RANK[r] = process_index
          THEN func_calls[r] = 1 /\ wrapper_ret[r] = Func(model_arg)
          ELSE func_calls[r] = 0 /\ wrapper_ret[r] = model_arg
    /\ \A r \in 1..Len(LOCAL_RANK) \ WrapperReturned : func_calls[r] = 0
    /\ (decorator = "on_main_process" /\ WrapperReturned = 1..Len(LOCAL_RANK)) =>
          /\ Cardinality({r \in WrapperReturned : func_calls[r] = 1}) = 1
          /\ \A r \in WrapperReturned :
                func_calls[r] = 1 <=> is_main_process(LOCAL_RANK[r])
    /\ \A r \in WrapperReturned :
          ~is_multi_process(LOCAL_RANK[r]) => func_calls[r] = 1

\* every process of a run with MaxRanks ranks has returned from an
\* on_main_process wrapper: rank 0 called func, the others returned the model
C34_Witness ==
    /\ decorator = "on_main_process"
    /\ Len(LOCAL_RANK) = MaxRanks
    /\ WrapperReturned = 1..MaxRanks
    /\ func_calls[1] = 1
    /\ \A r \in 2..MaxRanks : func_calls[r] = 0 /\ wrapper_ret[r] = model_arg

\* ---------------------------------------------------------------------------
\* brevitas/backport/fx/immutable_collections.py
\* ---------------------------------------------------------------------------

Items == 1..MaxItems

\* lines 80-90: the mutable_functions of immutable_list
ListMutableFunctions ==
    {"__delitem__", "__iadd__", "__imul__", "__setitem__", "append", "clear",
     "extend", "insert", "pop", "remove"}

\* line 96: the mutable_functions of immutable_dict
DictMutableFunctions ==
    {"__delitem__", "__setitem__", "clear", "pop", "popitem", "update"}

\* the methods of the base class that change the object: those of Python's
\* list and dict, which the container inherits through type(name, (base,), {})
BaseMutators(base) ==
    IF base = "list"
    THEN ListMutableFunctions \cup {"reverse", "sort"}
    ELSE DictMutableFunctions \cup {"setdefault", "__ior__"}

\* _create_immutable_container, lines 71-75: the attribute attr of the
\* container class is _no_mutation when it is one of mutable_functions, and
\* the method of the base class otherwise
ContainerAttr(base, mutable_functions, attr) ==
    IF attr \in mutable_functions THEN "_no_mutation" ELSE base

\* lines 78-96: the two container classes
MutableFunctionsOf(base) ==
    IF base = "list" THEN ListMutableFunctions ELSE DictMutableFunctions

\* list.reverse
ReverseSeq(s) == [k \in 1..Len(s) |-> s[Len(s) + 1 - k]]

\* list.sort: ascending insertion sort
RECURSIVE ListSort(_)
ListSort(s) ==
    IF s = <<>> THEN <<>>
    ELSE LET rest == ListSort(Tail(s))
             below == SelectSeq(rest, LAMBDA x : x <= Head(s))
             above == SelectSeq(rest, LAMBDA x : x > Head(s))
         IN below \o <<Head(s)>> \o above

\* dict.setdefault(key, default) and dict.__ior__({key: default})
DictSet(items, key, default, overwrite) ==
    IF key \in DOMAIN items /\ ~overwrite
    THEN items
    ELSE [k \in DOMAIN items \cup {key} |->
             IF k = key THEN default ELSE items[k]]

\* the methods of list and dict that the container class does not shadow
BaseMethod(attr, items, key, default) ==
    CASE attr = "reverse" -> ReverseSeq(items)
      [] attr = "sort" -> ListSort(items)
      [] attr = "setdefault" -> DictSet(items, key, default, FALSE)
      [] attr = "__ior__" -> DictSet(items, key, default, TRUE)

\* the lists and the dicts a container is constructed from
ItemsOf(base) ==
    IF base = "list"
    THEN UNION {[1..n -> Items] : n \in 0..MaxItems}
    ELSE UNION {[K -> Items] : K \in SUBSET Items}

\* immutable_list(items) and immutable_dict(items)
InitImm ==
    /\ OptimizerIdle
    /\ BesideImmIdle
    /\ pc = "constructed"
    /\ caller = "immutable_collections"
    /\ \E base \in {"list", "dict"} : \E items \in ItemsOf(base) :
          /\ container = [base |-> base, items |-> items]
          /\ constructed = items
    /\ last_call = [attr |-> "__init__", raised |-> "None"]

\* container.attr(...): _no_mutation, lines 66-68, raises and leaves the
\* object alone; a method of the base class runs on the object
CallMethod(attr, key, default) ==
    /\ pc = "constructed"
    /\ attr \in BaseMutators(container.base)
    /\ IF ContainerAttr(container.base, MutableFunctionsOf(container.base),
                        attr) = "_no_mutation"
       THEN /\ last_call' = [attr |-> attr, raised |-> "NotImplementedError"]
            /\ container' = container
       ELSE /\ last_call' = [attr |-> attr, raised |-> "None"]
            /\ container' = [container EXCEPT
                                !.items = BaseMethod(attr, @, key, default)]
    /\ UNCHANGED <<constructed, restOfImm, optimizerVars, pc, exc>>

\* a method call on an immutable_list
CallListMethod ==
    /\ container.base = "list"
    /\ \E attr \in BaseMutators("list") : CallMethod(attr, 1, 1)

\* a method call on an immutable_dict
CallDictMethod ==
    /\ container.base = "dict"
    /\ \E attr \in BaseMutators("dict") : \E key, default \in Items :
          CallMethod(attr, key, default)

NextImm == CallListMethod \/ CallDictMethod

SpecImm == InitImm /\ [][NextImm]_vars

\* C35 (as stated): after any sequence of calls of mutating methods on an
\* immutable_list or immutable_dict, the items equal the items at
\* construction and the last call raised NotImplementedError
C35_Original ==
    /\ container.items = constructed
    /\ last_call.attr # "__init__" => last_call.raised = "NotImplementedError"

\* ---------------------------------------------------------------------------
\* brevitas_examples/imagenet_classification/ptq/learned_round_utils.py,
\* LearnedRound._insert_learned_round_quantizer, and
\* brevitas/quant/solver/common.py, solve_float_to_int_impl_from_enum
\* ---------------------------------------------------------------------------

\* common.py, lines 37-53
solve_float_to_int_impl_from_enum(impl_type) ==
    CASE impl_type = "ROUND" -> "RoundSte"
      [] impl_type = "FLOOR" -> "FloorSte"
      [] impl_type = "CEIL" -> "CeilSte"
      [] impl_type = "ROUND_TO_ZERO" -> "RoundToZeroSte"
      [] impl_type = "DPU" -> "DPURoundSte"
      [] impl_type = "LEARNED_ROUND" -> "LearnedRoundSte"
      [] impl_type = "STOCHASTIC_ROUND" -> "StochasticRoundSte"
      [] OTHER -> "Exception: not recognized"

\* an insertion guard that ignores the learned-round modules of the layer
InsertNeeded_EveryLayer(is_wbiol, found) == is_wbiol

\* lines 176-177: isinstance(module, QuantWBIOL) and no learned-round module
\* found in it
InsertNeeded(is_wbiol, found) == is_wbiol /\ found = 0

\* _is_learned_round_module, lines 226-227 for AdaRound and 255-256 for
\* AutoRound, applied to the float-to-int module of a layer
IsLearnedRoundModule(method, impl) ==
    IF method = "AdaRound" THEN impl = "LearnedRoundSte"
    ELSE impl = "AutoRoundSte"

\* len(self._find_learned_round_modules(module)), lines 194-199, for a layer
\* whose only candidate is the float-to-int module of its weight quantizer
FindLearnedRoundModules(method, layer) ==
    IF IsLearnedRoundModule(method, layer.float_to_int_impl) THEN 1 ELSE 0

\* _insert_learned_round_quantizer_to_layer, lines 229-243 for AdaRound and
\* 258-263 for AutoRound: the injector of the weight quantizer gets the
\* float_to_int_impl_type of the method
InsertToLayer(method, layer) ==
    [layer EXCEPT !.float_to_int_impl_type =
        IF method = "AdaRound" THEN "LEARNED_ROUND" ELSE "AUTO_ROUND"]

\* the class of a float-to-int module has a parameter named value
HasValue(impl) == impl \in {"LearnedRoundSte", "AutoRoundSte"}

\* line 179, weight_quant.init_tensor_quant(preserve_state_dict=True), for a
\* float_to_int_impl_type that was resolved to impl: the tensor quantizer is
\* built again from the injector; a value of the state dict saved before is
\* loaded into the new module, a new parameter starts at learned_round_init
InitTensorQuant(layer, impl) ==
    [layer EXCEPT !.float_to_int_impl = impl,
                  !.value = IF ~HasValue(impl) THEN Unbound
                            ELSE IF layer.value # Unbound THEN layer.value
                            ELSE 0,
                  !.inits = @ + 1]

\* lines 175-179: the loop over block.modules() from module k on; an
\* exception of the solver leaves the loop with the injector of the layer
\* already replaced
RECURSIVE InsertFrom(_, _, _)
InsertFrom(method, b, k) ==
    IF k > Len(b) THEN [block |-> b, raised |-> FALSE]
    ELSE IF InsertNeeded(b[k].is_wbiol, FindLearnedRoundModules(method, b[k]))
    THEN LET layer == InsertToLayer(method, b[k])
             impl == solve_float_to_int_impl_from_enum(
                         layer.float_to_int_impl_type)
         IN IF impl = "Exception: not recognized"
            THEN [block |-> [b EXCEPT ![k] = layer], raised |-> TRUE]
            ELSE InsertFrom(method,
                            [b EXCEPT ![k] = InitTensorQuant(layer, impl)],
                            k + 1)
    ELSE InsertFrom(method, b, k + 1)

\* a module of a block before any learned-round method ran: a module that
\* is no quantized layer, or a QuantWBIOL layer whose weight quantizer rounds
\* with ROUND or was configured with LEARNED_ROUND
ModulesOfBlock ==
    {[is_wbiol |-> FALSE, float_to_int_impl_type |-> "None",
      float_to_int_impl |-> "None", value |-> Unbound, inits |-> 0]}
    \cup {[is_wbiol |-> TRUE, float_to_int_impl_type |-> ty,
           float_to_int_impl |-> solve_float_to_int_impl_from_enum(ty),
           value |-> IF ty = "LEARNED_ROUND" THEN 0 ELSE Unbound,
           inits |-> 0] : ty \in {"ROUND", "LEARNED_ROUND"}}

InitInsert ==
    /\ OptimizerIdle
    /\ BesideInsertIdle
    /\ pc = "learned_round_iterator"
    /\ caller = "learned_round_utils"
    /\ learned_round \in {"AdaRound", "AutoRound"}
    /\ \E n \in 1..MaxLayers : block \in [1..n -> ModulesOfBlock]
    /\ runs = 0

\* _insert_learned_round_quantizer(block), lines 174-179
InsertLearnedRoundQuantizer ==
    /\ pc = "learned_round_iterator"
    /\ runs < MaxRuns
    /\ LET r == InsertFrom(learned_round, block, 1)
       IN /\ block' = r.block
          /\ IF r.raised
             THEN /\ pc' = "aborted"
                  /\ exc' = "Exception: not recognized"
                  /\ runs' = runs
             ELSE /\ runs' = runs + 1
                  /\ UNCHANGED <<pc, exc>>
    /\ UNCHANGED <<learned_round, restOfInsert, optimizerVars>>

\* the caller of learned_round_iterator, lines 201-218, trains the rounding
\* parameter of a learned-round module of the block
TrainStep(k) ==
    /\ pc = "learned_round_iterator"
    /\ runs >= 1
    /\ FindLearnedRoundModules(learned_round, block[k]) = 1
    /\ \E v \in 1..MaxValue : block' = [block EXCEPT ![k].value = v]
    /\ UNCHANGED <<learned_round, runs, restOfInsert, optimizerVars, pc, exc>>

NextInsert ==
    \/ InsertLearnedRoundQuantizer
    \/ \E k \in 1..Len(block) : TrainStep(k)

SpecInsert == InitInsert /\ [][NextInsert]_vars

\* C36: a run of _insert_learned_round_quantizer changes only quantized
\* layers that contain no learned-round module of the method, and a run that
\* follows a run that returned changes nothing in the block: no quantizer is
\* initialized again and no rounding parameter is reset
C36_InsertionIdempotent ==
    [][(runs' # runs \/ pc' = "aborted") =>
          /\ \A k \in 1..Len(block) :
                block'[k] # block[k] =>
                   /\ block[k].is_wbiol
                   /\ FindLearnedRoundModules(learned_round, block[k]) = 0
          /\ runs >= 1 => block' = block]_vars

\* a second run has returned; the layer whose quantizer the first run
\* inserted was initialized once and keeps its trained rounding parameter
C36_Witness ==
    /\ runs = 2
    /\ \E k \in 1..Len(block) :
          /\ block[k].inits = 1
          /\ block[k].float_to_int_impl = "LearnedRoundSte"
          /\ block[k].value >= 1

\* C37 (as stated): no learned-round method sets on a weight quantizer a
\* float-to-int implementation type that solve_float_to_int_impl_from_enum
\* does not resolve: inserting the quantizers never raises 'not recognized'
C37_Original ==
    ~(pc = "aborted" /\ exc = "Exception: not recognized")

\* ---------------------------------------------------------------------------
\* brevitas/nn/quant_convtranspose.py
\* ---------------------------------------------------------------------------

ConvClasses ==
    {"QuantConvTranspose1d", "QuantConvTranspose2d", "QuantConvTranspose3d"}

\* the smallest output size of a transposed convolution of an input of
\* length x with the given stride, kernel size 1, no padding
MinSize(x, s) == (x - 1) * s + 1

\* compute_output_padding, lines 95-101, 190-196, 285-291: the module's
\* output_padding, 0, without an output_size; the distance of a requested
\* output_size from the smallest one, which must be below the stride
ComputeOutputPadding(x, s, output_size) ==
    IF output_size = Unbound THEN 0
    ELSE IF output_size < MinSize(x, s) \/ output_size > MinSize(x, s) + s - 1
    THEN Unbound
    ELSE output_size - MinSize(x, s)

\* QuantConvTranspose{1,2,3}d(in_channels, out_channels, ..., groups=groups),
\* lines 33-75, 128-170, 223-265; the base constructor accepts the padding
\* mode 'zeros' and groups that divide out_channels
InitConv ==
    /\ OptimizerIdle
    /\ BesideConvIdle
    /\ pc = "constructed"
    /\ caller = "quant_convtranspose"
    /\ conv_class \in ConvClasses
    /\ groups \in 1..MaxChannels
    /\ out_channels \in {c \in 1..MaxChannels : c % groups = 0}
    /\ padding_mode = "zeros"
    /\ stride \in 1..2
    /\ _output_size = Unbound
    /\ conv_ret = [op |-> "__init__", raised |-> "None", value |-> "None"]

\* the property channelwise_separable, lines 85-87, 180-182, 275-277:
\* `raise self.groups == self.out_channels` raises a bool, which is no
\* exception: Python raises TypeError instead
ChannelwiseSeparable ==
    /\ pc = "constructed"
    /\ conv_ret' = [op |-> "channelwise_separable", raised |-> "TypeError",
                    value |-> "None"]
    /\ UNCHANGED <<conv_class, groups, out_channels, padding_mode, stride,
                   _output_size, restOfConv, optimizerVars, pc, exc>>

\* forward(input, output_size), lines 89-93, 184-188, 279-283, with
\* inner_forward_impl, lines 116-123, 211-218, 306-313, on an input of
\* length x
Forward(x, output_size) ==
    /\ pc = "constructed"
    /\ LET output_padding == ComputeOutputPadding(x, stride, output_size)
       IN IF padding_mode = "zeros"
          THEN IF output_padding = Unbound
               THEN /\ _output_size' = output_size
                    /\ conv_ret' = [op |-> "forward", raised |-> "ValueError",
                                    value |-> "None"]
               ELSE /\ _output_size' = Unbound
                    /\ conv_ret' = [op |-> "forward", raised |-> "None",
                                    value |-> "Tensor"]
          ELSE /\ _output_size' = output_size
               /\ conv_ret' = [op |-> "forward",
                               raised |-> "NotImplementedError",
                               value |-> "None"]
    /\ UNCHANGED <<conv_class, groups, out_channels, padding_mode, stride,
                   restOfConv, optimizerVars, pc, exc>>

NextConv ==
    \/ ChannelwiseSeparable
    \/ \E x \in 1..2 : \E output_size \in {Unbound} \cup 1..MaxSize :
          Forward(x, output_size)

SpecConv == InitConv /\ [][NextConv]_vars

\* C38 (as stated): reading channelwise_separable of a QuantConvTranspose1d,
\* 2d or 3d returns the boolean groups == out_channels, and a forward call
\* with padding mode 'zeros' that returns leaves _output_size equal to None
C38_Original ==
    /\ conv_ret.op = "channelwise_separable" =>
          /\ conv_ret.raised = "None"
          /\ conv_ret.value = IF groups = out_channels THEN "True" ELSE "False"
    /\ (conv_ret.op = "forward" /\ conv_ret.raised = "None") =>
          _output_size = Unbound
====
